---- MODULE Spec2Model ----
(***************************************************************************)
(* serde_dbgfmt: a deserializer for the text produced by Rust's Debug      *)
(* formatter.  The model follows src/src/lex.rs (the Lexer) and            *)
(* src/src/de.rs (the Deserializer and its serde access objects).          *)
(*                                                                         *)
(* A buffer is a string; a lexer cursor is the byte offset `pos` of the    *)
(* unconsumed suffix (Lexer.data == the bytes of the buffer after pos).    *)
(* The modelled alphabet is ASCII, so one char is one byte.                *)
(***************************************************************************)
EXTENDS Integers, Sequences, FiniteSets, TLC

(***************************************************************************)
(* Character classes                                                       *)
(***************************************************************************)
WhiteSpace == {" ", "\t", "\n", "\r", "\f"}

DecDigit == {"0", "1", "2", "3", "4", "5", "6", "7", "8", "9"}

HexDigit == DecDigit \cup {"a", "b", "c", "d", "e", "f", "A", "B", "C", "D", "E", "F"}

Letter ==
  {"a", "b", "c", "d", "e", "f", "g", "h", "i", "j", "k", "l", "m",
   "n", "o", "p", "q", "r", "s", "t", "u", "v", "w", "x", "y", "z",
   "A", "B", "C", "D", "E", "F", "G", "H", "I", "J", "K", "L", "M",
   "N", "O", "P", "Q", "R", "S", "T", "U", "V", "W", "X", "Y", "Z"}

\* unicode_ident::is_xid_start / is_xid_continue restricted to ASCII
XidStart == Letter

XidContinue == Letter \cup DecDigit \cup {"_"}

SinglePunct == {"{", "}", "[", "]", ":", ",", "(", ")", "+", "-"}

RadixMark == {"x", "X", "o", "O", "b", "B"}

(***************************************************************************)
(* Byte access.  None stands for Option::None of a char or byte lookup.    *)
(***************************************************************************)
None == ""

\* `let v = ...;` followed by the code F that uses v
Let(v, F(_)) == F(v)

\* the `?` of Rust: a failed (or aborted) step is the result, else the code F
\* goes on with the step's result
Try(r, F(_)) == IF r.k # "ok" THEN r ELSE F(r)

\* s.as_bytes().get(i) with a 0-based offset i
ByteAt(s, i) == IF i >= 0 /\ i < Len(s) THEN SubSeq(s, i + 1, i + 1) ELSE None

\* the suffix of s that starts at offset p (what Lexer.data holds)
Rest(s, p) == SubSeq(s, p + 1, Len(s))

\* offset, relative to d, of the first occurrence of c at or after d; -1 if none
Find(s, d, c) ==
  IF \E i \in d..(Len(s) - 1) : ByteAt(s, i) = c
  THEN (CHOOSE i \in d..(Len(s) - 1) :
          /\ ByteAt(s, i) = c
          /\ \A j \in d..(i - 1) : ByteAt(s, j) # c) - d
  ELSE -1

(***************************************************************************)
(* Lexer results.  k is "tok" (a token was produced and consumed), "err"   *)
(* (LexerError) or "panic" (the call aborted).  pos is the cursor after    *)
(* the call.                                                               *)
(***************************************************************************)
LexOk(kind, p) == [k |-> "ok", kind |-> kind, pos |-> p, found |-> "", expected |-> ""]

LexErr(p, found, expected) ==
  [k |-> "err", kind |-> "", pos |-> p, found |-> found, expected |-> expected]

LexPanic(p) == [k |-> "panic", kind |-> "", pos |-> p, found |-> "", expected |-> ""]

first_char(s, p) == ByteAt(s, p)

TokenKindText(kind) ==
  CASE kind = "String" -> "a string"
    [] kind = "Char" -> "a character literal"
    [] kind = "Integer" -> "an integer"
    [] kind = "Float" -> "a floating-point number"
    [] kind = "Punct" -> "a punctuation token"
    [] kind = "Ident" -> "an identifier"
    [] kind = "Eof" -> "end-of-file"

RECURSIVE skip_whitespace(_, _)
skip_whitespace(s, p) ==
  IF p < Len(s) /\ ByteAt(s, p) \in WhiteSpace THEN skip_whitespace(s, p + 1) ELSE p

peek_char(s, p) == ByteAt(s, p)

\* take_char advances by the index of the first char of char_indices()
take_char(s, p) ==
  LET index == 0
  IN  [c |-> ByteAt(s, p), pos |-> IF p < Len(s) THEN p + index ELSE p]

RECURSIVE parse_repeated(_, _, _)
parse_repeated(s, p, pred) ==
  IF p < Len(s) /\ ByteAt(s, p) \in pred THEN parse_repeated(s, p + 1, pred) ELSE p

parse_once(s, p, expected, pred) ==
  IF p < Len(s)
  THEN IF ByteAt(s, p) \in pred
       THEN LexOk("", p + 1)
       ELSE LexErr(p, first_char(s, p), expected)
  ELSE LexErr(p, "", expected)

\* the `while let Some(idx) = self.data.find(quote)` loop of parse_string and
\* parse_char; chk is the build's overflow-check setting for `idx - 1`
RECURSIVE quote_scan(_, _, _, _)
quote_scan(s, d, quote, chk) ==
  Let(Find(s, d, quote), LAMBDA idx :
    IF idx < 0 THEN LexOk("", d)
    ELSE IF idx - 1 < 0
         THEN IF chk THEN LexPanic(d + idx) ELSE LexOk("", d + idx)
         ELSE IF ByteAt(Rest(s, d + idx), idx - 1) = "\\"
              THEN quote_scan(s, d + idx, quote, chk)
              ELSE LexOk("", d + idx))

quoted(s, p, quote, kind, chk) ==
  IF ByteAt(s, p) # quote THEN LexErr(p, first_char(s, p), TokenKindText(kind))
  ELSE Let(quote_scan(s, p + 1, quote, chk), LAMBDA r :
         IF r.k = "panic" THEN r
         ELSE IF ByteAt(s, r.pos) = quote
              THEN LexOk(kind, r.pos + 1)
              ELSE LexErr(r.pos, Rest(s, r.pos), TokenKindText(kind)))

lex_parse_string(s, p, chk) == quoted(s, p, "\"", "String", chk)

lex_parse_char(s, p, chk) == quoted(s, p, "'", "Char", chk)

lex_parse_ident(s, p) ==
  IF p >= Len(s) THEN LexErr(p, "", TokenKindText("Ident"))
  ELSE IF ByteAt(s, p) \notin XidStart
       THEN LexErr(p, first_char(s, p), TokenKindText("Ident"))
       ELSE LexOk("Ident", parse_repeated(s, p + 1, XidContinue))

\* parse_number, the `\.[0-9]+` part of a float
float_frac(s, p) ==
  IF peek_char(s, p) = "."
  THEN Let(parse_once(s, p + 1, TokenKindText("Float"), DecDigit), LAMBDA o :
         IF o.k = "ok" THEN LexOk("", parse_repeated(s, o.pos, DecDigit)) ELSE o)
  ELSE LexOk("", p)

\* parse_number, the exponent part of a float
float_exp(s, p) ==
  IF peek_char(s, p) \in {"e", "E"}
  THEN Let(parse_once(s, IF peek_char(s, p + 1) \in {"+", "-"} THEN p + 2 ELSE p + 1,
                      TokenKindText("Float"), DecDigit),
           LAMBDA o :
             IF o.k = "ok" THEN LexOk("Float", parse_repeated(s, o.pos, DecDigit)) ELSE o)
  ELSE LexOk("Float", p)

\* the float tail of parse_number, entered after the leading digit run
float_tail(s, p) ==
  Let(float_frac(s, p), LAMBDA frac :
    IF frac.k # "ok" THEN frac ELSE float_exp(s, frac.pos))

\* parse_number after the `0[xob]` prefix was recognised at t
radix_digits(s, p) ==
  Let(parse_once(s, p, TokenKindText("Integer"), HexDigit), LAMBDA o :
    IF o.k = "ok" THEN LexOk("Integer", parse_repeated(s, o.pos, HexDigit)) ELSE o)

\* a digit run that is an Integer whatever follows it
decimal_digits_only(s, p) == LexOk("Integer", parse_repeated(s, p, DecDigit))

\* parse_number after the first char was taken: the decimal digit run
decimal_digits(s, p) ==
  Let(parse_repeated(s, p, DecDigit), LAMBDA q :
    IF peek_char(s, q) \in {".", "e", "E"} THEN float_tail(s, q) ELSE LexOk("Integer", q))

parse_number(s, p) ==
  Let(take_char(s, p), LAMBDA t :
    IF t.c = None THEN LexErr(t.pos, "", "a number")
    ELSE IF t.c \notin DecDigit THEN LexErr(t.pos, first_char(s, t.pos), "a number")
    ELSE IF t.c = "0" /\ peek_char(s, t.pos) \in RadixMark
         THEN radix_digits(s, t.pos + 1)
         ELSE decimal_digits(s, t.pos))

parse_dotdot(s, p) ==
  Let(parse_once(s, p, "..", {"."}), LAMBDA a :
    IF a.k # "ok" THEN a
    ELSE Let(parse_once(s, a.pos, "..", {"."}), LAMBDA b :
           IF b.k # "ok" THEN b ELSE LexOk("Punct", b.pos)))

\* the closure handed to parse_consumed by parse_token
classify(s, p, chk) ==
  LET c == peek_char(s, p)
  IN  CASE c = None -> LexOk("Eof", p)
        [] c = "\"" -> lex_parse_string(s, p, chk)
        [] c = "'" -> lex_parse_char(s, p, chk)
        [] c \in DecDigit -> parse_number(s, p)
        [] c \in XidStart -> lex_parse_ident(s, p)
        [] c = "." -> parse_dotdot(s, p)
        [] c \in SinglePunct -> LexOk("Punct", p + 1)
        [] OTHER -> LexErr(p, first_char(s, p), "a valid token")

(***************************************************************************)
(* Tokens.  A token result carries the span [from, pos) of the token; a    *)
(* failed attempt leaves the cursor where skip_whitespace put it, since    *)
(* try_parse commits the copy only on success.                             *)
(***************************************************************************)
TokOk(kind, value, from, p) ==
  [k |-> "tok", kind |-> kind, value |-> value, from |-> from, pos |-> p,
   found |-> "", expected |-> ""]

TokErr(p, found, expected) ==
  [k |-> "err", kind |-> "", value |-> "", from |-> p, pos |-> p,
   found |-> found, expected |-> expected]

TokPanic(p) ==
  [k |-> "panic", kind |-> "", value |-> "", from |-> p, pos |-> p,
   found |-> "", expected |-> ""]

try_parse(s, p, chk) ==
  Let(classify(s, p, chk), LAMBDA r : IF r.k = "ok" THEN r ELSE [r EXCEPT !.pos = p])

\* parse_consumed that returns all of its copy as the span
parse_consumed_whole(s, p, chk) ==
  Let(try_parse(s, p, chk), LAMBDA r :
    CASE r.k = "ok" -> TokOk(r.kind, SubSeq(s, p + 1, Len(s)), p, r.pos)
      [] r.k = "err" -> TokErr(p, r.found, r.expected)
      [] OTHER -> TokPanic(p))

parse_consumed(s, p, chk) ==
  Let(try_parse(s, p, chk), LAMBDA r :
    CASE r.k = "ok" -> TokOk(r.kind, SubSeq(s, p + 1, r.pos), p, r.pos)
      [] r.k = "err" -> TokErr(p, r.found, r.expected)
      [] OTHER -> TokPanic(p))

parse_token(s, p, chk) == parse_consumed(s, skip_whitespace(s, p), chk)

(***************************************************************************)
(* Deserializer results.  k is "ok" (a value v was produced), "err" (an    *)
(* Error e was returned) or "panic" (the call aborted).  pos is the live   *)
(* lexer cursor after the call.  Values are tagged records.                *)
(***************************************************************************)
Nil == [nil |-> TRUE]

NoErr == [tag |-> "", found |-> "", expected |-> ""]

Ok(p, v) == [k |-> "ok", pos |-> p, v |-> v, e |-> NoErr]

\* an Error that puts the lexer back at the start of the buffer
Err_rewinding(p, tag, found, expected) ==
  [k |-> "err", pos |-> 0, v |-> Nil,
   e |-> [tag |-> tag, found |-> found, expected |-> expected]]

Err(p, tag, found, expected) ==
  [k |-> "err", pos |-> p, v |-> Nil,
   e |-> [tag |-> tag, found |-> found, expected |-> expected]]

Panic(p) == [k |-> "panic", pos |-> p, v |-> Nil, e |-> NoErr]

\* Error::unexpected_token(token, expected)
unexpected_token(p, token, expected) == Err(p, "Lexer", token.value, expected)

\* From<LexerError> for Error, and the propagation of an aborted lexer call
FromLex(t) == IF t.k = "panic" THEN Panic(t.pos) ELSE Err(t.pos, "Lexer", t.found, t.expected)

\* Expected::Punct(c); the Display form quotes c
ExpectedPunct(c) == c

VUnit == [unit |-> TRUE]

VBool(b) == [bool |-> b]

VInt(n) == [int |-> n]

VStr(cs) == [str |-> cs]

VChar(c) == [char |-> c]

VNone == [opt |-> <<>>]

VSome(v) == [opt |-> <<v>>]

VSeq(vs) == [seq |-> vs]

VMap(kvs) == [map |-> kvs]

VStruct(name, fs) == [struct |-> name, fields |-> fs]

VVariant(name, payload) == [variant |-> name, payload |-> payload]

(***************************************************************************)
(* Deserializer: lookahead and token-level parsers                         *)
(***************************************************************************)
peek(s, p, chk) == parse_token(s, p, chk)

peek2(s, p, chk) ==
  Let(parse_token(s, p, chk), LAMBDA a :
    IF a.k # "tok" THEN a ELSE parse_token(s, a.pos, chk))

\* Token::is_punct
is_punct(t, text) == t.k = "tok" /\ t.kind = "Punct" /\ t.value = text

\* span covering both a and b inside the buffer
join_spans(s, aFrom, bTo) == SubSeq(s, aFrom + 1, bTo)

\* the `match token.kind` that ends parse_integer; sign_span is Nil or the
\* sign token.  The ok result carries [sign, value, span] in v.
Integer(s, sign_span, token) ==
  IF token.k # "tok" THEN FromLex(token)
  ELSE IF token.kind = "Integer"
       THEN Ok(token.pos,
               [sign |-> IF sign_span # Nil /\ sign_span.value = "-"
                         THEN "Negative" ELSE "Positive",
                value |-> token.value,
                span |-> IF sign_span # Nil
                         THEN join_spans(s, sign_span.from, token.pos)
                         ELSE token.value])
       ELSE unexpected_token(token.pos, token, TokenKindText("Integer"))

\* parse_integer: optional sign token, then an Integer token
parse_integer(s, p, chk) ==
  Let(parse_token(s, p, chk), LAMBDA token :
    IF token.k # "tok" THEN FromLex(token)
    ELSE IF token.kind = "Punct" /\ token.value \in {"+", "-"}
         THEN Integer(s, token, parse_token(s, token.pos, chk))
         ELSE Integer(s, Nil, token))

de_parse_ident(s, p, chk) ==
  Let(parse_token(s, p, chk), LAMBDA t :
    IF t.k # "tok" THEN FromLex(t)
    ELSE IF t.kind = "Ident" THEN Ok(t.pos, [ident |-> t.value])
    ELSE unexpected_token(t.pos, t, TokenKindText("Ident")))

\* variant of parse_ident_exact that takes whatever identifier is there
parse_ident_any(s, p, chk, expected) ==
  Try(de_parse_ident(s, p, chk), LAMBDA id : Ok(id.pos, Nil))

parse_ident_exact(s, p, chk, expected) ==
  Let(parse_token(s, p, chk), LAMBDA t :
    IF t.k # "tok" THEN FromLex(t)
    ELSE IF t.kind = "Ident" /\ t.value = expected THEN Ok(t.pos, Nil)
    ELSE IF t.kind = "Ident" THEN unexpected_token(t.pos, t, expected)
    ELSE unexpected_token(t.pos, t, TokenKindText("Ident")))

\* parse_punct_ex with the accepted texts given as a set
parse_punct_ex(s, p, chk, expected, accepted) ==
  Let(parse_token(s, p, chk), LAMBDA t :
    IF t.k # "tok" THEN FromLex(t)
    ELSE IF t.kind # "Punct" THEN unexpected_token(t.pos, t, expected)
    ELSE IF t.value \notin accepted THEN unexpected_token(t.pos, t, expected)
    ELSE Ok(t.pos, [punct |-> t.value]))

parse_punct(s, p, chk, punct) == parse_punct_ex(s, p, chk, ExpectedPunct(punct), {punct})

(***************************************************************************)
(* Deserializer::end                                                       *)
(***************************************************************************)
\* variant of end that is content with any token that lexes
end_any_token(s, p, chk) ==
  Let(parse_token(s, p, chk), LAMBDA token :
    IF token.k # "tok" THEN FromLex(token) ELSE Ok(token.pos, VUnit))

\* variant of end that also takes a comma for the end of the input
end_or_comma(s, p, chk) ==
  Let(parse_token(s, p, chk), LAMBDA token :
    IF token.k # "tok" THEN FromLex(token)
    ELSE IF token.kind # "Eof" /\ ~is_punct(token, ",")
         THEN unexpected_token(token.pos, token, TokenKindText("Eof"))
         ELSE Ok(token.pos, VUnit))

end(s, p, chk) ==
  Let(parse_token(s, p, chk), LAMBDA token :
    IF token.k # "tok" THEN FromLex(token)
    ELSE IF token.kind # "Eof"
         THEN unexpected_token(token.pos, token, TokenKindText("Eof"))
         ELSE Ok(token.pos, VUnit))

(***************************************************************************)
(* Integer conversion: <int>::from_str_radix and str::parse of core.       *)
(***************************************************************************)
RECURSIVE Pow(_, _)
Pow(b, n) == IF n = 0 THEN 1 ELSE b * Pow(b, n - 1)

\* integers here are 32 bits wide: the 32-bit and wider targets are modelled
\* with this ceiling
WideMax == 2147483647

\* <int>::MAX and <int>::MIN of a type of the given width and signedness
IntMax(isSigned, bits) ==
  IF bits >= 32 THEN WideMax
  ELSE IF isSigned THEN Pow(2, bits - 1) - 1 ELSE Pow(2, bits) - 1

IntMin(isSigned, bits) ==
  IF ~isSigned THEN 0
  ELSE IF bits >= 32 THEN 0 - WideMax ELSE 0 - Pow(2, bits - 1)

\* <int>::MAX.ilog10() of the signed type of the given width
MaxIlog10(bits) ==
  CASE bits = 8 -> 2
    [] bits = 16 -> 4
    [] bits = 32 -> 9
    [] bits = 64 -> 18
    [] bits = 128 -> 38

DigitChars == "0123456789abcdefghijklmnopqrstuvwxyz"

UpperDigitChars == "0123456789ABCDEFGHIJKLMNOPQRSTUVWXYZ"

\* char::to_digit(radix): the digit's value, or -1 when c is no digit of the radix
to_digit(c, radix) ==
  LET hits == {i \in 1..Len(DigitChars) :
                 SubSeq(DigitChars, i, i) = c \/ SubSeq(UpperDigitChars, i, i) = c}
  IN  IF hits = {} THEN -1
      ELSE LET d == (CHOOSE i \in hits : TRUE) - 1
           IN  IF d < radix THEN d ELSE -1

IntOk(n) == [ok |-> TRUE, v |-> n, cause |-> ""]

IntErr(cause) == [ok |-> FALSE, v |-> 0, cause |-> cause]

\* the checked digit loop of from_str_radix over digits[i..]
RECURSIVE digit_loop(_, _, _, _, _, _, _)
digit_loop(digits, i, acc, radix, positive, lo, hi) ==
  IF i > Len(digits) THEN IntOk(acc)
  ELSE Let(to_digit(SubSeq(digits, i, i), radix), LAMBDA x :
         IF x < 0 THEN IntErr("InvalidDigit")
         \* checked_mul then checked_add / checked_sub, without leaving the range
         ELSE IF positive
              THEN IF acc > (hi - x) \div radix THEN IntErr("PosOverflow")
                   ELSE digit_loop(digits, i + 1, acc * radix + x, radix, positive, lo, hi)
              ELSE IF (0 - acc) > ((0 - lo) - x) \div radix THEN IntErr("NegOverflow")
                   ELSE digit_loop(digits, i + 1, acc * radix - x, radix, positive, lo, hi))

from_str_radix(src, radix, isSigned, bits) ==
  LET c0 == ByteAt(src, 0)
      lo == IntMin(isSigned, bits)
      hi == IntMax(isSigned, bits)
  IN  IF Len(src) = 0 THEN IntErr("Empty")
      ELSE IF c0 \in {"+", "-"} /\ Len(src) = 1 THEN IntErr("InvalidDigit")
      ELSE IF c0 = "+" THEN digit_loop(Rest(src, 1), 1, 0, radix, TRUE, lo, hi)
      ELSE IF c0 = "-" /\ isSigned THEN digit_loop(Rest(src, 1), 1, 0, radix, FALSE, lo, hi)
      ELSE digit_loop(src, 1, 0, radix, TRUE, lo, hi)

\* str::get(..2)
Prefix2(str) == IF Len(str) >= 2 THEN SubSeq(str, 1, 2) ELSE None

RECURSIVE trim_start_matches(_, _)
trim_start_matches(str, c) ==
  IF Len(str) > 0 /\ ByteAt(str, 0) = c THEN trim_start_matches(Rest(str, 1), c) ELSE str

RECURSIVE trim_end_matches(_, _)
trim_end_matches(str, c) ==
  IF Len(str) > 0 /\ ByteAt(str, Len(str) - 1) = c
  THEN trim_end_matches(SubSeq(str, 1, Len(str) - 1), c)
  ELSE str

\* str::trim_matches removes the pattern from both ends
trim_matches(str, c) == trim_end_matches(trim_start_matches(str, c), c)

Min(a, b) == IF a < b THEN a ELSE b

\* unsigned_result without its arm for Sign::Negative
unsigned_result_any_sign(int, bits) ==
  LET pre == Prefix2(int.value)
  IN  IF pre \in {"0x", "0X"} THEN from_str_radix(Rest(int.value, 2), 16, FALSE, bits)
      ELSE IF pre \in {"0o", "0O"} THEN from_str_radix(Rest(int.value, 2), 8, FALSE, bits)
      ELSE IF pre \in {"0b", "0B"} THEN from_str_radix(Rest(int.value, 2), 2, FALSE, bits)
      ELSE from_str_radix(int.value, 10, FALSE, bits)

\* the `match int.value.get(..2)` of macro deserialize_unsigned
unsigned_result(int, bits) ==
  LET pre == Prefix2(int.value)
  IN  IF int.sign = "Negative" THEN from_str_radix("-1", 10, FALSE, bits)
      ELSE IF pre \in {"0x", "0X"} THEN from_str_radix(Rest(int.value, 2), 16, FALSE, bits)
      ELSE IF pre \in {"0o", "0O"} THEN from_str_radix(Rest(int.value, 2), 8, FALSE, bits)
      ELSE IF pre \in {"0b", "0B"} THEN from_str_radix(Rest(int.value, 2), 2, FALSE, bits)
      ELSE from_str_radix(int.value, 10, FALSE, bits)

\* the `match result` that ends both integer macros; r is parse_integer's result
visit_int(r, result) ==
  IF result.ok THEN Ok(r.pos, VInt(result.v))
  ELSE Err(r.pos, "ParseInt", r.v.span, result.cause)

\* macro deserialize_unsigned, for the unsigned type of the given width
deserialize_unsigned(s, p, chk, bits) ==
  Let(parse_integer(s, p, chk), LAMBDA r :
    IF r.k # "ok" THEN r ELSE visit_int(r, unsigned_result(r.v, bits)))

\* macro deserialize_signed up to from_str_radix: radix split, trim_matches('0'),
\* copy of at most storage.len() - 1 digits behind the sign byte
signed_result(int, bits) ==
  LET pre == Prefix2(int.value)
      radix == IF pre \in {"0x", "0X"} THEN 16
               ELSE IF pre \in {"0o", "0O"} THEN 8
               ELSE IF pre \in {"0b", "0B"} THEN 2
               ELSE 10
      rest == IF radix = 10 THEN int.value ELSE Rest(int.value, 2)
      t == trim_matches(rest, "0")
      trimmed == IF t = "" THEN "0" ELSE t
      storageLen == MaxIlog10(bits) + 2
      len == Min(Len(trimmed), storageLen - 1)
      value == (IF int.sign = "Positive" THEN "+" ELSE "-") \o SubSeq(trimmed, 1, len)
  IN  from_str_radix(value, radix, TRUE, bits)

\* macro deserialize_signed, for the signed type of the given width
deserialize_signed(s, p, chk, bits) ==
  Let(parse_integer(s, p, chk), LAMBDA r :
    IF r.k # "ok" THEN r ELSE visit_int(r, signed_result(r.v, bits)))

(***************************************************************************)
(* unescape: string and char contents as a sequence of code points         *)
(***************************************************************************)
AsciiFrom32 == " !\"#$%&'()*+,-./0123456789:;<=>?@ABCDEFGHIJKLMNOPQRSTUVWXYZ[\\]^_"

AsciiFrom97 == "abcdefghijklmnopqrstuvwxyz{|}~"

\* the Unicode scalar value of a char of the modelled alphabet
CodePoint(c) ==
  CASE c = "\t" -> 9
    [] c = "\n" -> 10
    [] c = "\f" -> 12
    [] c = "\r" -> 13
    [] \E i \in 1..Len(AsciiFrom32) : SubSeq(AsciiFrom32, i, i) = c ->
         31 + (CHOOSE i \in 1..Len(AsciiFrom32) : SubSeq(AsciiFrom32, i, i) = c)
    [] \E i \in 1..Len(AsciiFrom97) : SubSeq(AsciiFrom97, i, i) = c ->
         96 + (CHOOSE i \in 1..Len(AsciiFrom97) : SubSeq(AsciiFrom97, i, i) = c)

CodePoints(str) == [i \in 1..Len(str) |-> CodePoint(SubSeq(str, i, i))]

UnOk(cs) == [k |-> "ok", v |-> cs, msg |-> ""]

UnErr(msg) == [k |-> "err", v |-> <<>>, msg |-> msg]

UnPanic == [k |-> "panic", v |-> <<>>, msg |-> ""]

MaxScalar == 1114111

SurrogateLo == 55296

SurrogateHi == 57343

\* u32::from_str_radix(digits, 16) on a run of hex digits.  Eight significant
\* digits always exceed MaxScalar, so such a value is reported as MaxScalar + 1.
u32_from_hex(digits) ==
  LET sig == trim_start_matches(digits, "0")
  IN  IF Len(digits) = 0 THEN IntErr("Empty")
      ELSE IF Len(sig) > 8 THEN IntErr("PosOverflow")
      ELSE IF Len(sig) = 8 THEN IntOk(MaxScalar + 1)
      ELSE digit_loop(sig, 1, 0, 16, TRUE, 0, WideMax)

\* char::from_u32
is_scalar(code) == code <= MaxScalar /\ ~(code >= SurrogateLo /\ code <= SurrogateHi)

\* the `\u` arm of unescape; text starts with the backslash.
\* Returns [k, c, len]: the scalar and the number of bytes of the escape.
EscOk(c, len) == [k |-> "ok", c |-> c, len |-> len, msg |-> ""]

EscErr(msg) == [k |-> "err", c |-> 0, len |-> 0, msg |-> msg]

unicode_escape(text) ==
  LET body == Rest(text, 3)
      offset == parse_repeated(body, 0, HexDigit)
      digits == SubSeq(body, 1, offset)
  IN  IF ByteAt(text, 2) # "{" THEN EscErr("invalid unicode escape")
      ELSE IF ByteAt(body, offset) # "}" THEN EscErr("invalid unicode escape")
      ELSE Let(u32_from_hex(digits), LAMBDA code :
             IF ~code.ok THEN EscErr("invalid unicode escape")
             ELSE IF ~is_scalar(code.v)
                  THEN EscErr("unicode escape was not a valid unicode codepoint")
                  ELSE EscOk(code.v, Len(digits) + 4))

\* an escape read as the character behind the backslash
escape_at_verbatim(text) == EscOk(CodePoint(SubSeq(text, 2, 2)), 2)

\* the `match &text[..2]` of unescape; text starts with the backslash
escape_at(text) ==
  LET two == SubSeq(text, 1, 2)
  IN  CASE two = "\\0" -> EscOk(0, 2)
        [] two = "\\t" -> EscOk(9, 2)
        [] two = "\\r" -> EscOk(13, 2)
        [] two = "\\n" -> EscOk(10, 2)
        [] two = "\\\\" -> EscOk(92, 2)
        [] two = "\\'" -> EscOk(39, 2)
        [] two = "\\\"" -> EscOk(34, 2)
        [] two = "\\u" -> unicode_escape(text)
        [] OTHER -> EscErr("invalid escape sequence")

\* the loop of unescape: text is the unprocessed input, escaped the output so far
RECURSIVE unescape_loop(_, _)
unescape_loop(text, escaped) ==
  Let(Find(text, 0, "\\"), LAMBDA next :
    IF next < 0 THEN UnOk(escaped \o CodePoints(text))
    ELSE IF Len(text) - next < 2 THEN UnPanic
    ELSE Let(escape_at(Rest(text, next)), LAMBDA esc :
           IF esc.k # "ok" THEN UnErr(esc.msg)
           ELSE unescape_loop(Rest(text, next + esc.len),
                              escaped \o CodePoints(SubSeq(text, 1, next)) \o <<esc.c>>)))

unescape(text) == unescape_loop(text, <<>>)

\* Deserializer::parse_string and parse_char: a quoted token and its contents
parse_quoted(s, p, chk, kind) ==
  Let(parse_token(s, p, chk), LAMBDA t :
    IF t.k # "tok" THEN FromLex(t)
    ELSE IF t.kind # kind THEN unexpected_token(t.pos, t, TokenKindText(kind))
    ELSE IF Len(t.value) < 2 THEN Panic(t.pos)
    ELSE Let(unescape(SubSeq(t.value, 2, Len(t.value) - 1)), LAMBDA u :
           IF u.k = "panic" THEN Panic(t.pos)
           ELSE IF u.k = "err" THEN Err(t.pos, "InvalidStringLiteral", "", u.msg)
           ELSE Ok(t.pos, [span |-> t.value, value |-> u.v])))

de_parse_string(s, p, chk) == parse_quoted(s, p, chk, "String")

de_parse_char(s, p, chk) == parse_quoted(s, p, chk, "Char")

deserialize_str(s, p, chk) ==
  Try(de_parse_string(s, p, chk), LAMBDA r : Ok(r.pos, VStr(r.v.value)))

deserialize_char(s, p, chk) ==
  Try(de_parse_char(s, p, chk), LAMBDA r :
    IF Len(r.v.value) = 0
    THEN Err(r.pos, "InvalidStringLiteral", r.v.span, "character literal was empty")
    ELSE IF Len(r.v.value) > 1
         THEN Err(r.pos, "InvalidStringLiteral", r.v.span,
                  "character literal contained multiple characters")
         ELSE Ok(r.pos, VChar(r.v.value[1])))

deserialize_bool(s, p, chk) ==
  Try(de_parse_ident(s, p, chk), LAMBDA r :
    IF r.v.ident = "true" THEN Ok(r.pos, VBool(TRUE))
    ELSE IF r.v.ident = "false" THEN Ok(r.pos, VBool(FALSE))
    ELSE Err(r.pos, "Lexer", r.v.ident, "a boolean"))

deserialize_unit(s, p, chk) ==
  Try(parse_punct(s, p, chk, "("), LAMBDA a :
    Try(parse_punct(s, a.pos, chk, ")"), LAMBDA b : Ok(b.pos, VUnit)))

(***************************************************************************)
(* Schemas: the shape the caller's type announces through serde.           *)
(***************************************************************************)
TUInt(bits) == [t |-> "uint", bits |-> bits]

TInt(bits) == [t |-> "int", bits |-> bits]

TBool == [t |-> "bool"]

TChar == [t |-> "char"]

TStr == [t |-> "string"]

TUnit == [t |-> "unit"]

TAny == [t |-> "any"]

TOption(e) == [t |-> "option", elem |-> e]

\* Vec and slices render with brackets; BTreeSet and HashSet (TSet) with braces
TSeq(e) == [t |-> "seq", elem |-> e, brace |-> FALSE]

TSet(e) == [t |-> "seq", elem |-> e, brace |-> TRUE]

TTuple(es) == [t |-> "tuple", elems |-> es]

TMap(kt, vt) == [t |-> "map", key |-> kt, val |-> vt]

Field(n, ty) == [fname |-> n, fty |-> ty]

TStruct(n, fs) == [t |-> "struct", name |-> n, fields |-> fs]

TUnitStruct(n) == [t |-> "unit_struct", name |-> n]

TNewtype(n, e) == [t |-> "newtype_struct", name |-> n, elem |-> e]

TTupleStruct(n, es) == [t |-> "tuple_struct", name |-> n, elems |-> es]

\* a variant: vkind is "unit", "newtype", "tuple" or "struct"
Variant(n, vkind, es, fs) == [vname |-> n, vkind |-> vkind, elems |-> es, fields |-> fs]

TEnum(n, vs) == [t |-> "enum", name |-> n, variants |-> vs]

VTuple(vs) == [tuple |-> vs]

VAny(shape) == [any |-> shape]

\* a failed lookahead leaves the live cursor at p
PeekFail(t, p) == [FromLex(t) EXCEPT !.pos = p]

RECURSIVE deserialize(_, _, _, _)
RECURSIVE deserialize_any(_, _, _)
RECURSIVE visit_seq_all(_, _, _, _, _, _)
RECURSIVE visit_seq_fixed(_, _, _, _, _, _)
RECURSIVE visit_map_all(_, _, _, _, _, _)
RECURSIVE visit_map_struct(_, _, _, _, _)

(***************************************************************************)
(* Access objects handed to the visitors                                   *)
(***************************************************************************)
\* variant of separator that lets the next element follow without a comma
separator_optional(s, p, chk, closers) ==
  Let(peek(s, p, chk), LAMBDA t :
    IF t.k # "tok" THEN PeekFail(t, p)
    ELSE IF is_punct(t, ",") THEN parse_punct(s, p, chk, ",")
    ELSE Ok(p, Nil))

\* the separator step shared by the next_element_seed / next_value_seed bodies:
\* after a value, a closer from `closers` may follow, otherwise a comma must
separator(s, p, chk, closers) ==
  Let(peek(s, p, chk), LAMBDA t :
    IF t.k # "tok" THEN PeekFail(t, p)
    ELSE IF t.kind = "Punct" /\ t.value \in closers THEN Ok(p, Nil)
    ELSE parse_punct(s, p, chk, ","))

\* next_element_seed of DebugSeqAccess (closers "]" and "}") and of
\* DebugTupleAccess (closer ")"); the ok value is VNone or VSome(element)
next_element_seed(s, p, chk, ety, closers) ==
  Let(peek(s, p, chk), LAMBDA t :
    IF t.k # "tok" THEN PeekFail(t, p)
    ELSE IF t.kind = "Punct" /\ t.value \in closers THEN Ok(p, VNone)
    ELSE Try(deserialize(s, p, chk, ety), LAMBDA value :
           Try(separator(s, value.pos, chk, closers), LAMBDA sep :
             Ok(sep.pos, VSome(value.v)))))

DebugSeqAccess_next_element_seed(s, p, chk, ety) ==
  next_element_seed(s, p, chk, ety, {"]", "}"})

DebugTupleAccess_next_element_seed(s, p, chk, ety) ==
  next_element_seed(s, p, chk, ety, {")"})

DebugMapAccess_next_key_seed(s, p, chk, kty) ==
  Let(peek(s, p, chk), LAMBDA t :
    IF t.k # "tok" THEN PeekFail(t, p)
    ELSE IF is_punct(t, "}") THEN Ok(p, VNone)
    ELSE Try(deserialize(s, p, chk, kty), LAMBDA key : Ok(key.pos, VSome(key.v))))

\* next_value_seed of DebugMapAccess and of DebugStructAccess
next_value_seed(s, p, chk, vty) ==
  Try(parse_punct(s, p, chk, ":"), LAMBDA colon :
    Try(deserialize(s, colon.pos, chk, vty), LAMBDA value :
      Try(separator(s, value.pos, chk, {"}"}), LAMBDA sep : Ok(sep.pos, value.v))))

\* next_key_seed without its arm for the token ".."
next_key_seed_without_dots(s, p, chk) ==
  Let(peek(s, p, chk), LAMBDA token :
    IF token.k # "tok" THEN PeekFail(token, p)
    ELSE IF is_punct(token, "}") THEN Ok(p, VNone)
    ELSE Try(de_parse_ident(s, p, chk), LAMBDA ident : Ok(ident.pos, VSome(ident.v))))

\* the ok value is VNone or VSome([ident |-> field name])
DebugStructAccess_next_key_seed(s, p, chk) ==
  Let(peek(s, p, chk), LAMBDA token :
    IF token.k # "tok" THEN PeekFail(token, p)
    ELSE IF is_punct(token, "}") THEN Ok(p, VNone)
    ELSE IF is_punct(token, "..")
         THEN Try(parse_punct_ex(s, p, chk, "..", {".."}), LAMBDA dots : Ok(dots.pos, VNone))
         ELSE Try(de_parse_ident(s, p, chk), LAMBDA ident : Ok(ident.pos, VSome(ident.v))))

(***************************************************************************)
(* The visitors of serde's impls and derives, driving the access objects   *)
(***************************************************************************)
\* visit_seq of Vec, BTreeSet and IgnoredAny: elements until the access says None
visit_seq_all(s, p, chk, ety, closers, acc) ==
  Try(next_element_seed(s, p, chk, ety, closers), LAMBDA r :
    IF r.v = VNone THEN Ok(r.pos, VSeq(acc))
    ELSE visit_seq_all(s, r.pos, chk, ety, closers, acc \o r.v.opt))

\* visit_seq of a tuple, tuple struct or tuple variant: one element per slot
visit_seq_fixed(s, p, chk, etys, i, acc) ==
  IF i > Len(etys) THEN Ok(p, VTuple(acc))
  ELSE Try(DebugTupleAccess_next_element_seed(s, p, chk, etys[i]), LAMBDA r :
         IF r.v = VNone THEN Err(r.pos, "Custom", "", "invalid length")
         ELSE visit_seq_fixed(s, r.pos, chk, etys, i + 1, acc \o r.v.opt))

\* visit_map of BTreeMap, HashMap and IgnoredAny
visit_map_all(s, p, chk, kty, vty, acc) ==
  Try(DebugMapAccess_next_key_seed(s, p, chk, kty), LAMBDA key :
    IF key.v = VNone THEN Ok(key.pos, VMap(acc))
    ELSE Try(next_value_seed(s, key.pos, chk, vty), LAMBDA value :
           visit_map_all(s, value.pos, chk, kty, vty,
                         Append(acc, [key |-> key.v.opt[1], val |-> value.v]))))

\* the value a derived visitor gives a field the input never named
missing_field(f) == IF f.fty.t = "option" THEN VNone ELSE Nil

\* the end of a derived visit_map: every slot filled, or a missing field
visit_map_end(p, fields, slots) ==
  LET filled == [j \in 1..Len(fields) |->
                   IF slots[j] = Nil THEN missing_field(fields[j]) ELSE slots[j]]
  IN  IF \E j \in 1..Len(fields) : filled[j] = Nil
      THEN Err(p, "Custom", "", "missing field")
      ELSE Ok(p, [fields |-> filled])

\* one key of a derived visit_map: a known field is read into its slot once,
\* an unknown one is read as IgnoredAny; p is just after the key
visit_map_field(s, p, chk, fields, slots, name) ==
  LET hits == {i \in 1..Len(fields) : fields[i].fname = name}
      i == CHOOSE j \in hits : TRUE
  IN  IF hits # {} /\ slots[i] # Nil THEN Err(p, "Custom", name, "duplicate field")
      ELSE Try(next_value_seed(s, p, chk, IF hits = {} THEN TAny ELSE fields[i].fty),
               LAMBDA value :
                 visit_map_struct(s, value.pos, chk, fields,
                                  IF hits = {} THEN slots ELSE [slots EXCEPT ![i] = value.v]))

\* visit_map of a derived struct or struct variant: slots[i] is Nil until
\* field i has been read
visit_map_struct(s, p, chk, fields, slots) ==
  Try(DebugStructAccess_next_key_seed(s, p, chk), LAMBDA key :
    IF key.v = VNone THEN visit_map_end(key.pos, fields, slots)
    ELSE visit_map_field(s, key.pos, chk, fields, slots, key.v.opt[1].ident))

(***************************************************************************)
(* Deserializer: composite shapes                                          *)
(***************************************************************************)
\* the `match token.kind` that ends parse_float; the literal is kept as text
Float(neg, token) ==
  IF token.k # "tok" THEN FromLex(token)
  ELSE IF token.kind = "Float" THEN Ok(token.pos, [float |-> token.value, neg |-> neg])
  ELSE IF token.kind = "Ident"
          /\ token.value \in {"NaN", "nan", "NAN", "Nan", "nAn", "naN", "NAn", "nAN"}
       THEN Ok(token.pos, [float |-> "NaN", neg |-> neg])
  ELSE unexpected_token(token.pos, token, TokenKindText("Float"))

\* parse_float and deserialize_f64
deserialize_f64(s, p, chk) ==
  Let(parse_token(s, p, chk), LAMBDA token :
    IF token.k # "tok" THEN FromLex(token)
    ELSE IF token.kind = "Punct" /\ token.value \in {"+", "-"}
         THEN Float(token.value = "-", parse_token(s, token.pos, chk))
         ELSE Float(FALSE, token))

\* a body that is taken as complete wherever its elements stop
closing_unchecked(s, body, chk, closer) == body

\* the closing delimiter after a visitor returned body
closing(s, body, chk, closer) ==
  Try(body, LAMBDA b :
    Try(parse_punct(s, b.pos, chk, closer), LAMBDA c : Ok(c.pos, b.v)))

deserialize_option(s, p, chk, ety) ==
  Try(de_parse_ident(s, p, chk), LAMBDA ident :
    IF ident.v.ident = "Some"
    THEN Try(parse_punct(s, ident.pos, chk, "{"), LAMBDA open :
           Try(closing(s, deserialize(s, open.pos, chk, ety), chk, "}"), LAMBDA value :
             Ok(value.pos, VSome(value.v))))
    ELSE IF ident.v.ident = "None" THEN Ok(ident.pos, VNone)
    ELSE Err(ident.pos, "Custom", ident.v.ident, "unknown variant, expected Some or None"))

deserialize_seq(s, p, chk, ety) ==
  Try(parse_punct_ex(s, p, chk, "[ or {", {"[", "{"}), LAMBDA open :
    closing(s, visit_seq_all(s, open.pos, chk, ety, {"]", "}"}, <<>>), chk,
            IF open.v.punct = "[" THEN "]" ELSE "}"))

\* deserialize_tuple with the visitor of a tuple of the given element types
deserialize_tuple(s, p, chk, etys) ==
  Try(parse_punct(s, p, chk, "("), LAMBDA open :
    closing(s, visit_seq_fixed(s, open.pos, chk, etys, 1, <<>>), chk, ")"))

\* deserialize_tuple with a visitor that takes every element (IgnoredAny)
deserialize_tuple_any(s, p, chk) ==
  Try(parse_punct(s, p, chk, "("), LAMBDA open :
    closing(s, visit_seq_all(s, open.pos, chk, TAny, {")"}, <<>>), chk, ")"))

deserialize_map(s, p, chk, kty, vty) ==
  Try(parse_punct(s, p, chk, "{"), LAMBDA open :
    closing(s, visit_map_all(s, open.pos, chk, kty, vty, <<>>), chk, "}"))

\* the `{ fields }` part shared by deserialize_struct_dyn and struct_variant
struct_body(s, p, chk, fields) ==
  Try(parse_punct(s, p, chk, "{"), LAMBDA open :
    closing(s, visit_map_struct(s, open.pos, chk, fields, [j \in 1..Len(fields) |-> Nil]),
            chk, "}"))

deserialize_struct_dyn(s, p, chk, name, fields) ==
  Try(parse_ident_exact(s, p, chk, name), LAMBDA id :
    Try(struct_body(s, id.pos, chk, fields), LAMBDA body :
      Ok(body.pos, VStruct(name, body.v.fields))))

deserialize_tuple_struct_dyn(s, p, chk, name, etys) ==
  Try(parse_ident_exact(s, p, chk, name), LAMBDA id :
    Try(deserialize_tuple(s, id.pos, chk, etys), LAMBDA body :
      Ok(body.pos, VStruct(name, body.v.tuple))))

deserialize_unit_struct_dyn(s, p, chk, name) ==
  Try(parse_ident_exact(s, p, chk, name), LAMBDA id : Ok(id.pos, VStruct(name, <<>>)))

deserialize_newtype_struct(s, p, chk, name, ety) ==
  Try(parse_ident_exact(s, p, chk, name), LAMBDA id :
    Try(parse_punct(s, id.pos, chk, "("), LAMBDA open :
      Try(closing(s, deserialize(s, open.pos, chk, ety), chk, ")"), LAMBDA body :
        Ok(body.pos, VStruct(name, <<body.v>>)))))

\* DebugEnumAccess::variant_seed with the derived variant-name visitor
variant_seed(s, p, chk, variants) ==
  Try(de_parse_ident(s, p, chk), LAMBDA ident :
    LET hits == {i \in 1..Len(variants) : variants[i].vname = ident.v.ident}
    IN  IF hits = {} THEN Err(ident.pos, "Custom", ident.v.ident, "unknown variant")
        ELSE Ok(ident.pos, [index |-> CHOOSE i \in hits : TRUE]))

newtype_variant_seed(s, p, chk, ety) ==
  Try(parse_punct(s, p, chk, "("), LAMBDA open :
    closing(s, deserialize(s, open.pos, chk, ety), chk, ")"))

\* the VariantAccess call a derived enum visitor makes for variant var; the ok
\* value is the variant's payload
variant_payload(s, p, chk, var) ==
  CASE var.vkind = "unit" -> Ok(p, <<>>)
    [] var.vkind = "newtype" ->
         Try(newtype_variant_seed(s, p, chk, var.elems[1]), LAMBDA r : Ok(r.pos, <<r.v>>))
    [] var.vkind = "tuple" ->
         Try(deserialize_tuple(s, p, chk, var.elems), LAMBDA r : Ok(r.pos, r.v.tuple))
    [] var.vkind = "struct" ->
         Try(struct_body(s, p, chk, var.fields), LAMBDA r : Ok(r.pos, r.v.fields))

\* deserialize_enum: visit_enum of a derived enum over DebugEnumAccess
deserialize_enum(s, p, chk, variants) ==
  Try(variant_seed(s, p, chk, variants), LAMBDA sel :
    Try(variant_payload(s, sel.pos, chk, variants[sel.v.index]), LAMBDA body :
      Ok(body.pos, VVariant(variants[sel.v.index].vname, body.v))))

deserialize_u64(s, p, chk) == deserialize_unsigned(s, p, chk, 64)

deserialize_i64(s, p, chk) == deserialize_signed(s, p, chk, 64)

\* what the IgnoredAny visitor keeps of a value: the shape it was given
shape(r, name) == Try(r, LAMBDA x : Ok(x.pos, VAny(name)))

\* deserialize_any, the arm of a leading sign
any_signed(s, p, chk, sign) ==
  Let(peek2(s, p, chk), LAMBDA two :
    IF two.k # "tok" THEN PeekFail(two, p)
    ELSE IF two.kind = "Integer" /\ sign = "+" THEN shape(deserialize_u64(s, p, chk), "u64")
    ELSE IF two.kind = "Integer" THEN shape(deserialize_i64(s, p, chk), "i64")
    ELSE IF two.kind = "Float" THEN shape(deserialize_f64(s, p, chk), "f64")
    ELSE unexpected_token(p, two, "an integer or a float"))

\* the arm of a leading identifier with true and false taken before the lookahead
any_ident_bool_first(s, p, chk, value) ==
  IF value \in {"true", "false"} THEN shape(deserialize_bool(s, p, chk), "bool")
  ELSE Let(peek2(s, p, chk), LAMBDA two :
    IF two.k # "tok" THEN PeekFail(two, p)
    ELSE IF is_punct(two, "{")
         THEN shape(deserialize_struct_dyn(s, p, chk, value, <<>>), "struct")
    ELSE IF is_punct(two, "(")
         THEN Try(parse_ident_exact(s, p, chk, value), LAMBDA id :
                shape(deserialize_tuple_any(s, id.pos, chk), "tuple_struct"))
    ELSE shape(deserialize_unit_struct_dyn(s, p, chk, value), "unit_struct"))

\* deserialize_any, the arm of a leading identifier
any_ident(s, p, chk, value) ==
  Let(peek2(s, p, chk), LAMBDA two :
    IF two.k # "tok" THEN PeekFail(two, p)
    ELSE IF is_punct(two, "{")
         THEN shape(deserialize_struct_dyn(s, p, chk, value, <<>>), "struct")
    ELSE IF is_punct(two, "(")
         THEN Try(parse_ident_exact(s, p, chk, value), LAMBDA id :
                shape(deserialize_tuple_any(s, id.pos, chk), "tuple_struct"))
    ELSE IF value \in {"true", "false"} THEN shape(deserialize_bool(s, p, chk), "bool")
    ELSE shape(deserialize_unit_struct_dyn(s, p, chk, value), "unit_struct"))

\* deserialize_any with the IgnoredAny visitor
deserialize_any(s, p, chk) ==
  Let(peek(s, p, chk), LAMBDA token :
    IF token.k # "tok" THEN PeekFail(token, p)
    ELSE CASE token.kind = "String" -> shape(deserialize_str(s, p, chk), "str")
           [] token.kind = "Char" -> shape(deserialize_char(s, p, chk), "char")
           [] token.kind = "Integer" -> shape(deserialize_u64(s, p, chk), "u64")
           [] token.kind = "Float" -> shape(deserialize_f64(s, p, chk), "f64")
           [] token.kind = "Punct" /\ token.value \in {"+", "-"} ->
                any_signed(s, p, chk, token.value)
           [] token.kind = "Ident" -> any_ident(s, p, chk, token.value)
           [] is_punct(token, "(") -> shape(deserialize_tuple_any(s, p, chk), "tuple")
           [] is_punct(token, "{") -> shape(deserialize_map(s, p, chk, TAny, TAny), "map")
           [] is_punct(token, "[") -> shape(deserialize_seq(s, p, chk, TAny), "seq")
           [] OTHER -> Panic(p))

\* T::deserialize(&mut deserializer) for a type of schema ty
deserialize(s, p, chk, ty) ==
  CASE ty.t = "uint" -> deserialize_unsigned(s, p, chk, ty.bits)
    [] ty.t = "int" -> deserialize_signed(s, p, chk, ty.bits)
    [] ty.t = "bool" -> deserialize_bool(s, p, chk)
    [] ty.t = "char" -> deserialize_char(s, p, chk)
    [] ty.t = "string" -> deserialize_str(s, p, chk)
    [] ty.t = "unit" -> deserialize_unit(s, p, chk)
    [] ty.t = "f64" -> deserialize_f64(s, p, chk)
    [] ty.t = "any" -> deserialize_any(s, p, chk)
    [] ty.t = "option" -> deserialize_option(s, p, chk, ty.elem)
    [] ty.t = "seq" -> deserialize_seq(s, p, chk, ty.elem)
    [] ty.t = "tuple" -> deserialize_tuple(s, p, chk, ty.elems)
    [] ty.t = "map" -> deserialize_map(s, p, chk, ty.key, ty.val)
    [] ty.t = "struct" -> deserialize_struct_dyn(s, p, chk, ty.name, ty.fields)
    [] ty.t = "unit_struct" -> deserialize_unit_struct_dyn(s, p, chk, ty.name)
    [] ty.t = "newtype_struct" -> deserialize_newtype_struct(s, p, chk, ty.name, ty.elem)
    [] ty.t = "tuple_struct" -> deserialize_tuple_struct_dyn(s, p, chk, ty.name, ty.elems)
    [] ty.t = "enum" -> deserialize_enum(s, p, chk, ty.variants)

(***************************************************************************)
(* The Debug formatter of core::fmt ({:?}), which writes the text that the *)
(* deserializer reads back.                                                *)
(***************************************************************************)
RECURSIVE DecStr(_)
DecStr(n) ==
  IF n < 10 THEN SubSeq(DigitChars, n + 1, n + 1)
  ELSE DecStr(n \div 10) \o SubSeq(DigitChars, (n % 10) + 1, (n % 10) + 1)

RECURSIVE HexStr(_)
HexStr(n) ==
  IF n < 16 THEN SubSeq(DigitChars, n + 1, n + 1)
  ELSE HexStr(n \div 16) \o SubSeq(DigitChars, (n % 16) + 1, (n % 16) + 1)

IntStr(n) == IF n < 0 THEN "-" \o DecStr(0 - n) ELSE DecStr(n)

\* char::escape_debug as used for a str (quote = 34) or a char (quote = 39)
escape_debug(code, quote) ==
  CASE code = 0 -> "\\0"
    [] code = 9 -> "\\t"
    [] code = 13 -> "\\r"
    [] code = 10 -> "\\n"
    [] code = 92 -> "\\\\"
    [] code = 34 /\ quote = 34 -> "\\\""
    [] code = 39 /\ quote = 39 -> "\\'"
    [] code >= 32 /\ code <= 95 -> SubSeq(AsciiFrom32, code - 31, code - 31)
    [] code >= 97 /\ code <= 126 -> SubSeq(AsciiFrom97, code - 96, code - 96)
    [] OTHER -> "\\u{" \o HexStr(code) \o "}"

RECURSIVE escape_all(_, _)
escape_all(cs, quote) ==
  IF cs = <<>> THEN "" ELSE escape_debug(Head(cs), quote) \o escape_all(Tail(cs), quote)

RECURSIVE Fmt(_, _)
RECURSIVE FmtList(_, _, _)
RECURSIVE FmtEntries(_, _, _, _)
RECURSIVE FmtFields(_, _, _)

\* comma-separated elements vs[i..] with element types tys[i..]
FmtList(vs, tys, i) ==
  IF i > Len(vs) THEN ""
  ELSE Fmt(vs[i], tys[i]) \o (IF i < Len(vs) THEN ", " ELSE "") \o FmtList(vs, tys, i + 1)

FmtEntries(kvs, kty, vty, i) ==
  IF i > Len(kvs) THEN ""
  ELSE Fmt(kvs[i].key, kty) \o ": " \o Fmt(kvs[i].val, vty)
       \o (IF i < Len(kvs) THEN ", " ELSE "") \o FmtEntries(kvs, kty, vty, i + 1)

FmtFields(vs, fields, i) ==
  IF i > Len(vs) THEN ""
  ELSE fields[i].fname \o ": " \o Fmt(vs[i], fields[i].fty)
       \o (IF i < Len(vs) THEN ", " ELSE "") \o FmtFields(vs, fields, i + 1)

\* DebugStruct: `Name { f: v, .. }`, or the bare name when there is no field
FmtStruct(name, vs, fields) ==
  IF Len(fields) = 0 THEN name ELSE name \o " { " \o FmtFields(vs, fields, 1) \o " }"

\* DebugTuple: `Name(a, b)`; an unnamed tuple of one element renders as `(a,)`
FmtTuple(name, vs, tys) ==
  IF Len(tys) = 0 /\ name # "" THEN name
  ELSE name \o "(" \o FmtList(vs, tys, 1)
       \o (IF Len(tys) = 1 /\ name = "" THEN "," ELSE "") \o ")"

Fmt(v, ty) ==
  CASE ty.t \in {"uint", "int"} -> IntStr(v.int)
    [] ty.t = "bool" -> IF v.bool THEN "true" ELSE "false"
    [] ty.t = "string" -> "\"" \o escape_all(v.str, 34) \o "\""
    [] ty.t = "char" -> "'" \o escape_debug(v.char, 39) \o "'"
    [] ty.t = "unit" -> "()"
    [] ty.t = "option" ->
         IF v = VNone THEN "None" ELSE "Some(" \o Fmt(v.opt[1], ty.elem) \o ")"
    [] ty.t = "seq" ->
         (IF ty.brace THEN "{" ELSE "[")
         \o FmtList(v.seq, [i \in 1..Len(v.seq) |-> ty.elem], 1)
         \o (IF ty.brace THEN "}" ELSE "]")
    [] ty.t = "tuple" -> FmtTuple("", v.tuple, ty.elems)
    [] ty.t = "map" -> "{" \o FmtEntries(v.map, ty.key, ty.val, 1) \o "}"
    [] ty.t = "struct" -> FmtStruct(ty.name, v.fields, ty.fields)
    [] ty.t = "unit_struct" -> ty.name
    [] ty.t = "newtype_struct" -> FmtTuple(ty.name, v.fields, <<ty.elem>>)
    [] ty.t = "tuple_struct" -> FmtTuple(ty.name, v.fields, ty.elems)
    [] ty.t = "enum" ->
         LET var == ty.variants[CHOOSE i \in 1..Len(ty.variants) :
                                  ty.variants[i].vname = v.variant]
         IN  IF var.vkind = "struct" THEN FmtStruct(var.vname, v.payload, var.fields)
             ELSE FmtTuple(var.vname, v.payload, var.elems)

(***************************************************************************)
(* Inputs: schemas and values of the caller, and the buffers handed to     *)
(* Deserializer::new.                                                      *)
(***************************************************************************)
MaxLen == 3

MaxElems == 2

MaxValues == 2

U8 == TUInt(8)

I8 == TInt(8)

U16 == TUInt(16)

SimpleStruct == TStruct("S", <<Field("a", U8), Field("b", TStr)>>)

NestedStruct == TStruct("N", <<Field("inner", SimpleStruct), Field("flag", TBool)>>)

UnitStruct == TUnitStruct("U")

Wrapper == TNewtype("W", U8)

Pair == TTupleStruct("P", <<U8, I8>>)

TestEnum ==
  TEnum("E", <<Variant("Unit", "unit", <<>>, <<>>),
               Variant("New", "newtype", <<U8>>, <<>>),
               Variant("Tup", "tuple", <<U8, TBool>>, <<>>),
               Variant("St", "struct", <<>>, <<Field("x", U8)>>)>>)

TV(ty, v) == [ty |-> ty, v |-> v]

SeqsUpTo(S, n) == UNION {[1..k -> S] : k \in 0..n}

ScalarValues ==
  {TV(U8, VInt(n)) : n \in {0, 7, 255}}
  \cup {TV(I8, VInt(n)) : n \in {0 - 128, 0 - 3, 10}}
  \cup {TV(U16, VInt(65535))}
  \cup {TV(TBool, VBool(b)) : b \in BOOLEAN}
  \cup {TV(TStr, VStr(cs)) : cs \in {<<>>, <<104, 105>>, <<97, 34, 98>>, <<67, 58, 92>>}}
  \cup {TV(TChar, VChar(c)) : c \in {97, 39}}
  \cup {TV(TUnit, VUnit)}

OptionValues ==
  {TV(TOption(U8), VNone), TV(TOption(U8), VSome(VInt(42))),
   TV(TOption(TOption(U8)), VSome(VSome(VInt(42))))}

SeqValues ==
  {TV(TSeq(U8), VSeq(xs)) : xs \in SeqsUpTo({VInt(1), VInt(2)}, MaxElems)}
  \cup {TV(TSet(TStr), VSeq(xs)) : xs \in SeqsUpTo({VStr(<<120>>)}, MaxElems)}
  \cup {TV(TTuple(<<U8, TBool>>), VTuple(<<VInt(1), VBool(TRUE)>>)),
        TV(TTuple(<<U8>>), VTuple(<<VInt(42)>>))}
  \cup {TV(TMap(TStr, U8), VMap(kvs)) :
          kvs \in SeqsUpTo({[key |-> VStr(<<97>>), val |-> VInt(1)]}, MaxElems)}
  \cup {TV(TSeq(TStr), VSeq(<<VStr(<<97, 98, 99, 100, 101, 102>>), VStr(<<10>>)>>))}

StructValues ==
  {TV(SimpleStruct, VStruct("S", <<VInt(42), VStr(<<120>>)>>)),
   TV(NestedStruct, VStruct("N", <<VStruct("S", <<VInt(1), VStr(<<120>>)>>), VBool(TRUE)>>)),
   TV(UnitStruct, VStruct("U", <<>>)),
   TV(Wrapper, VStruct("W", <<VInt(5)>>)),
   TV(Pair, VStruct("P", <<VInt(1), VInt(0 - 2)>>)),
   TV(TestEnum, VVariant("Unit", <<>>)),
   TV(TestEnum, VVariant("New", <<VInt(5)>>)),
   TV(TestEnum, VVariant("Tup", <<VInt(1), VBool(FALSE)>>)),
   TV(TestEnum, VVariant("St", <<VInt(3)>>))}

TypedValues == ScalarValues \cup OptionValues \cup SeqValues \cup StructValues

(***************************************************************************)
(* Buffers.  A case is a buffer, the values it was rendered from (script), *)
(* and the schemas the caller asks this buffer for (tys).                  *)
(***************************************************************************)
Case(kind, buf, script, tys) == [kind |-> kind, buf |-> buf, script |-> script, tys |-> tys]

RECURSIVE Render(_)
\* the renderings of the script's values, one space between two values
Render(script) ==
  IF script = <<>> THEN ""
  ELSE IF Len(script) = 1 THEN Fmt(script[1].v, script[1].ty)
  ELSE Fmt(script[1].v, script[1].ty) \o " " \o Render(Tail(script))

\* offset just after the last token of the i-th value of Render(script)
EndOf(script, i) == Len(Render(SubSeq(script, 1, i)))

UpperChars == "ABCDEFGHIJKLMNOPQRSTUVWXYZ"

LowerChars == "abcdefghijklmnopqrstuvwxyz"

RECURSIVE ToLower(_)
ToLower(str) ==
  IF str = "" THEN ""
  ELSE LET c == SubSeq(str, 1, 1)
           i == Find(UpperChars, 0, c)
       IN  (IF i < 0 THEN c ELSE SubSeq(LowerChars, i + 1, i + 1))
           \o ToLower(SubSeq(str, 2, Len(str)))

\* the same shape declared under a name that differs by case or by spelling
Misnamed(ty) ==
  IF ty.t \in {"struct", "unit_struct", "newtype_struct", "tuple_struct"}
  THEN {[ty EXCEPT !.name = n] : n \in {ToLower(ty.name), ty.name \o "x", "Wrong"}}
  ELSE {}

\* values a caller reads one after another from one buffer
MultiItems ==
  {TV(U8, VInt(7)), TV(TBool, VBool(TRUE)), TV(TStr, VStr(<<104, 105>>)),
   TV(Wrapper, VStruct("W", <<VInt(5)>>)), TV(TSeq(U8), VSeq(<<VInt(1)>>)),
   TV(TOption(U8), VNone)}

Scripts ==
  {<<tv>> : tv \in TypedValues}
  \cup {sc \in SeqsUpTo(MultiItems, MaxValues) : Len(sc) >= 2}

ScriptTys(sc) ==
  {sc[i].ty : i \in 1..Len(sc)} \cup UNION {Misnamed(sc[i].ty) : i \in 1..Len(sc)} \cup {TAny}

ValueCases == {Case("values", Render(sc), sc, ScriptTys(sc)) : sc \in Scripts}

\* every text of at most MaxLen characters of Alphabet
Alphabet == {" ", "\n", "1", ",", "@", "[", "]"}

RECURSIVE Texts(_)
Texts(n) ==
  IF n = 0 THEN {""}
  ELSE LET shorter == Texts(n - 1) IN shorter \cup {t \o c : t \in shorter, c \in Alphabet}

TextCases == {Case("text", t, <<>>, {U8, TSeq(U8), TAny}) : t \in Texts(MaxLen)}

\* buf without the byte at offset i / with text t put in before offset i
Cut(buf, i) == SubSeq(buf, 1, i) \o SubSeq(buf, i + 2, Len(buf))

Ins(buf, i, t) == SubSeq(buf, 1, i) \o t \o SubSeq(buf, i + 1, Len(buf))

Openers == {"[", "{", "("}

Closers == {"]", "}", ")"}

\* renderings with a separator damaged: the comma before an element taken out
\* ("nosep"), a comma doubled ("dupsep"), a comma put right after an opener
\* ("leadsep")
SepCases ==
  UNION {LET buf == Render(<<tv>>)
             at == 0..(Len(buf) - 1)
             tys == {tv.ty, TAny}
         IN  {Case("nosep", Cut(buf, i), <<tv>>, tys) :
                i \in {j \in at : ByteAt(buf, j) = "," /\ ByteAt(buf, j + 1) = " "}}
             \cup {Case("dupsep", Ins(buf, i, ","), <<tv>>, tys) :
                     i \in {j \in at : ByteAt(buf, j) = ","}}
             \cup {Case("leadsep", Ins(buf, i + 1, ","), <<tv>>, tys) :
                     i \in {j \in at : ByteAt(buf, j) \in Openers}}
         : tv \in SeqValues \cup StructValues}

\* inputs written by hand
LitCases ==
  {Case("lit", "S { a: 42, b: \"x\" }}", <<>>, {SimpleStruct}),
   Case("lit", "7 \"extra data\"", <<>>, {U8}),
   Case("lit", "   \t\n  ", <<>>, {U8}),
   Case("lit", "{ a: 42, b: \"x\" }", <<>>, {SimpleStruct}),
   Case("lit", "s { a: 42, b: \"x\" }", <<>>, {SimpleStruct}),
   Case("lit", "Sx { a: 42, b: \"x\" }", <<>>, {SimpleStruct}),
   Case("lit", "w(5)", <<>>, {Wrapper}),
   Case("lit", "Px(1, -2)", <<>>, {Pair}),
   Case("lit", "u", <<>>, {UnitStruct}),
   Case("lit", "1 , 2", <<>>, {U8}),
   Case("lit", "Some( 42 )", <<>>, {TOption(U8)}),
   Case("lit", "Some{42}", <<>>, {TOption(U8)}),
   Case("lit", "Maybe(42)", <<>>, {TOption(U8)}),
   Case("lit", "[1 2 3]", <<>>, {TSeq(U8), TAny}),
   Case("lit", "[1, 2, , 3]", <<>>, {TSeq(U8), TAny}),
   Case("lit", "{\"a\": 1 \"b\": 2}", <<>>, {TMap(TStr, U8), TAny})}

Cases == ValueCases \cup TextCases \cup SepCases \cup LitCases

\* a run: a case for the Deserializer under study and the text alt given to a
\* second Deserializer that receives the same calls
Run(c, how, alt) == [c |-> c, how |-> how, alt |-> alt]

MaxPad == 1

Blank == {" ", "\t", "\n", "\r"}

RECURSIVE Pads(_)
\* the non-empty texts of at most n blanks
Pads(n) ==
  IF n = 0 THEN {}
  ELSE Blank \cup {t \o c : t \in Pads(n - 1), c \in Blank}

RECURSIVE Tokens(_, _)
\* the tokens of s from offset p on, as Lexer::parse_token cuts them
Tokens(s, p) ==
  Let(parse_token(s, p, FALSE), LAMBDA t :
    IF t.k # "tok" \/ t.kind = "Eof" THEN <<>> ELSE <<t>> \o Tokens(s, t.pos))

\* the offsets between two adjacent tokens, before the first and after the last
Gaps(s) == Let(Tokens(s, 0), LAMBDA ts : {ts[i].from : i \in 1..Len(ts)} \cup {Len(s)})

\* the offsets of the closing delimiters that end a non-empty element list
\* with no comma yet
CommaSpots(s) ==
  Let(Tokens(s, 0), LAMBDA ts :
    {ts[i].from : i \in {j \in 2..Len(ts) :
       /\ ts[j].kind = "Punct" /\ ts[j].value \in Closers
       /\ ~(ts[j - 1].kind = "Punct" /\ ts[j - 1].value \in Openers \cup {","})}})

OwnCase(tv) == Case("values", Render(<<tv>>), <<tv>>, {tv.ty})

\* a rendering and the same text with blanks put into one gap
WsRuns ==
  UNION {Let(OwnCase(tv), LAMBDA c :
           {Run(c, "ws", Ins(c.buf, g, pad)) : g \in Gaps(c.buf), pad \in Pads(MaxPad)})
         : tv \in TypedValues}

\* a rendering and the same text with one comma put before a closing delimiter
CommaRuns ==
  UNION {Let(OwnCase(tv), LAMBDA c :
           {Run(c, "comma", Ins(c.buf, g, ",")) : g \in CommaSpots(c.buf)})
         : tv \in TypedValues}

Runs == {Run(c, "same", c.buf) : c \in Cases} \cup WsRuns \cup CommaRuns

(***************************************************************************)
(* Integer literals: a sign, a radix prefix or zero padding, and the       *)
(* digits of a known magnitude.                                            *)
(***************************************************************************)
MaxZeros == 2

RECURSIVE RadixStr(_, _, _)
\* the digits of n in the radix, written with the digit characters chars
RadixStr(n, radix, chars) ==
  IF n < radix THEN SubSeq(chars, n + 1, n + 1)
  ELSE RadixStr(n \div radix, radix, chars)
       \o SubSeq(chars, (n % radix) + 1, (n % radix) + 1)

RECURSIVE Zeros(_)
Zeros(n) == IF n = 0 THEN "" ELSE "0" \o Zeros(n - 1)

\* a literal: its text and what it was written from
NumLit(sign, prefix, zeros, radix, mag, chars) ==
  [text |-> sign \o prefix \o Zeros(zeros) \o RadixStr(mag, radix, chars),
   sign |-> sign, prefix |-> prefix, zeros |-> zeros, radix |-> radix, mag |-> mag]

Signs == {"", "+", "-"}

DecMags == {0, 1, 7, 10, 42, 100, 120, 127, 128, 129, 255, 256, 1000, 1234,
            32767, 32768, 65535, 65536, 100000}

RadixMags == {0, 1, 42, 63, 127, 128, 255, 256, 65535, 11259375}

RadixOf(prefix) ==
  CASE prefix \in {"0x", "0X"} -> 16
    [] prefix \in {"0o", "0O"} -> 8
    [] prefix \in {"0b", "0B"} -> 2

DecLits ==
  {NumLit(sign, "", z, 10, n, DigitChars) : sign \in Signs, z \in 0..MaxZeros, n \in DecMags}

RadixLits ==
  {NumLit(sign, prefix, 0, RadixOf(prefix), n, chars) :
     sign \in Signs, prefix \in {"0x", "0X", "0o", "0O", "0b", "0B"},
     n \in RadixMags, chars \in {DigitChars, UpperDigitChars}}

I16 == TInt(16)

I32 == TInt(32)

I64 == TInt(64)

U64 == TUInt(64)

IntTys == {U8, U16, U64, I8, I16, I32, I64}

NumCases == {Case("num", lit.text, <<lit>>, IntTys) : lit \in DecLits \cup RadixLits}

NumRuns == {Run(c, "same", c.buf) : c \in NumCases}

(***************************************************************************)
(* Bodies: field lists that end with the token "..", and collections whose *)
(* last closing delimiter is another one or is missing.                    *)
(***************************************************************************)
\* struct Test { a: u8, b: Option<u8> }, printed as non-exhaustive
Test == TStruct("Test", <<Field("a", U8), Field("b", TOption(U8))>>)

\* what the caller of a hand-written text expects: the value, or a failure
Expect(ty, v) == [ty |-> ty, ok |-> TRUE, v |-> v]

Refuse(ty) == [ty |-> ty, ok |-> FALSE, v |-> Nil]

DotsCase(text, e) == Case("dots", text, <<e>>, {e.ty})

DotsCases ==
  {DotsCase("Test { a: 4, .. }", Expect(Test, VStruct("Test", <<VInt(4), VNone>>))),
   DotsCase("Test { a: 4,.. }", Expect(Test, VStruct("Test", <<VInt(4), VNone>>))),
   DotsCase("Test { a: 4, ..}", Expect(Test, VStruct("Test", <<VInt(4), VNone>>))),
   DotsCase("S { a: 42, b: \"x\", .. }", Expect(SimpleStruct, VStruct("S", <<VInt(42), VStr(<<120>>)>>))),
   DotsCase("St { x: 3, .. }", Expect(TestEnum, VVariant("St", <<VInt(3)>>))),
   DotsCase("N { inner: S { a: 1, b: \"x\", .. }, flag: true, .. }",
            Expect(NestedStruct, VStruct("N", <<VStruct("S", <<VInt(1), VStr(<<120>>)>>), VBool(TRUE)>>))),
   DotsCase("Test { a: 4, .., }", Refuse(Test)),
   DotsCase("Test { a: 4, .. .. }", Refuse(Test)),
   DotsCase("Test { a: 4, ... }", Refuse(Test)),
   DotsCase("Test { a: 4, .. b: None }", Refuse(Test)),
   DotsCase("Test { a: 4, .., b: None }", Refuse(Test)),
   DotsCase("Test { a: 4, .. ]", Refuse(Test)),
   DotsCase("Test { a: 4, .. )", Refuse(Test)),
   DotsCase("Test { a: 4, ..", Refuse(Test)),
   DotsCase("Test { a: 4, .. 7 }", Refuse(Test)),
   DotsCase("S { a: 42, .. b: \"x\" }", Refuse(SimpleStruct)),
   DotsCase("S { a: 42, .., b: \"x\" }", Refuse(SimpleStruct)),
   DotsCase("S { a: 42, b: \"x\", .. \"y\" }", Refuse(SimpleStruct)),
   DotsCase("St { x: 3, .. x: 3 }", Refuse(TestEnum)),
   DotsCase("St { x: 3, .. )", Refuse(TestEnum)),
   DotsCase("St { x: 3, ..", Refuse(TestEnum)),
   DotsCase("N { inner: S { a: 1, b: \"x\", .. , }, flag: true }", Refuse(NestedStruct))}

\* the renderings that end with a closing delimiter
Closed == {tv \in OptionValues \cup SeqValues \cup StructValues :
             SubSeq(Fmt(tv.v, tv.ty), Len(Fmt(tv.v, tv.ty)), Len(Fmt(tv.v, tv.ty))) \in Closers}

\* the text with its last character replaced by d
Reclose(text, d) == SubSeq(text, 1, Len(text) - 1) \o d

\* the last closer replaced by another closer or by nothing
Reclosed(text) ==
  {Reclose(text, d) : d \in (Closers \cup {""}) \ {SubSeq(text, Len(text), Len(text))}}

CloseCases ==
  UNION {{Case("close", t, <<tv>>, {tv.ty, TAny}) : t \in Reclosed(Fmt(tv.v, tv.ty))} :
           tv \in Closed}
  \cup {Case("close", "[1, 2}", <<>>, {TSeq(U8), TSet(U8), TAny}),
        Case("close", "{\"a\"]", <<>>, {TSeq(TStr), TSet(TStr), TAny}),
        Case("close", "(1, 2]", <<>>, {TTuple(<<U8, U8>>), TAny}),
        Case("close", "[1, 2, 3", <<>>, {TSeq(U8), TAny}),
        Case("close", "S { f: 42", <<>>, {TStruct("S", <<Field("f", U8)>>), TAny}),
        Case("close", "Some(42", <<>>, {TOption(U8), TAny}),
        Case("close", "{\"a\": 1]", <<>>, {TMap(TStr, U8), TAny}),
        Case("close", "{\"a\": 1", <<>>, {TMap(TStr, U8), TAny}),
        Case("close", "[[1, 2}, [3]]", <<>>, {TSeq(TSeq(U8)), TAny}),
        Case("close", "[(1, 2], (3, 4)]", <<>>, {TSeq(TTuple(<<U8, U8>>)), TAny})}

BodyRuns == {Run(c, "same", c.buf) : c \in DotsCases \cup CloseCases}

(***************************************************************************)
(* Contents of string and char literals, written piece by piece: a piece   *)
(* is a text and the scalars it stands for.                                *)
(***************************************************************************)
MaxPieces == 2

Piece(text, cs) == [text |-> text, ok |-> TRUE, v |-> cs]

Broken(text) == [text |-> text, ok |-> FALSE, v |-> <<>>]

PlainPieces == {Piece("a", <<97>>), Piece("Z", <<90>>), Piece(" ", <<32>>), Piece("u{", <<117, 123>>)}

TwoCharEscapes ==
  {Piece("\\0", <<0>>), Piece("\\t", <<9>>), Piece("\\r", <<13>>), Piece("\\n", <<10>>),
   Piece("\\\\", <<92>>), Piece("\\'", <<39>>), Piece("\\\"", <<34>>)}

UnicodeEscapes ==
  {Piece("\\u{42}", <<66>>), Piece("\\u{0}", <<0>>), Piece("\\u{1f600}", <<128512>>),
   Piece("\\u{1F600}", <<128512>>), Piece("\\u{aBcDe}", <<703710>>),
   Piece("\\u{10FFFF}", <<1114111>>), Piece("\\u{d7ff}", <<55295>>),
   Piece("\\u{E000}", <<57344>>), Piece("\\u{0041}", <<65>>)}

GoodPieces == PlainPieces \cup TwoCharEscapes \cup UnicodeEscapes

\* escapes that are not escapes: an unknown letter, \u without its braces or
\* its digits, a surrogate, a value above U+10FFFF
BadEscapes ==
  {"\\q", "\\z", "\\a", "\\ ", "\\x41", "\\U{42}", "\\u", "\\u42", "\\u{42", "\\u{}",
   "\\u{g}", "\\u{4 2}", "\\u{D800}", "\\u{dfff}", "\\u{110000}", "\\u{999999}",
   "\\u{FFFFFFFF}"}

Blend(a, b) == [text |-> a.text \o b.text, ok |-> a.ok /\ b.ok, v |-> a.v \o b.v]

RECURSIVE Blends(_)
\* the contents made of at most n good pieces
Blends(n) ==
  IF n = 0 THEN {Piece("", <<>>)}
  ELSE Blends(n - 1) \cup {Blend(a, b) : a \in Blends(n - 1), b \in GoodPieces}

\* contents from the unit tests of unescape and from the documentation
KnownContents ==
  {Piece("test", <<116, 101, 115, 116>>),
   Piece("a\\u{42}c", <<97, 66, 99>>),
   Piece("One, two!\\nI declare a \\tab war!\\n\\\\\\u{9123}",
         CodePoints("One, two!") \o <<10>> \o CodePoints("I declare a ") \o <<9>>
           \o CodePoints("ab war!") \o <<10, 92, 37155>>)}

Around == {Piece("", <<>>), Piece("a", <<97>>), Piece("\\n", <<10>>), Piece("\\u{42}", <<66>>)}

\* a bad escape between good pieces, and a backslash as the last character
BrokenContents ==
  {Broken(a.text \o bad \o b.text) : a \in Around, bad \in BadEscapes, b \in Around}
  \cup {Broken(a.text \o "\\") : a \in Blends(1)}

Contents == Blends(MaxPieces) \cup KnownContents \cup BrokenContents

EscCases == {Case("esc", "\"" \o c.text \o "\"", <<c>>, {TStr}) : c \in Contents}

EscRuns == {Run(c, "same", c.buf) : c \in EscCases}

(***************************************************************************)
(* Token texts.  A piece is a text, the class it was written as and the    *)
(* kind of the one token it is meant to be; a buffer is a row of pieces    *)
(* with the same gap between two pieces.                                   *)
(***************************************************************************)
MaxToks == 2

TokPiece(text, class, kind) == [text |-> text, class |-> class, kind |-> kind, ok |-> TRUE, v |-> <<>>]

\* a piece that is no token
BadPiece(text, class) == [text |-> text, class |-> class, kind |-> "", ok |-> FALSE, v |-> <<>>]

\* a literal and the scalars of its value
QuotePiece(text, class, kind, cs) == [text |-> text, class |-> class, kind |-> kind, ok |-> TRUE, v |-> cs]

IntPieces == {TokPiece(t, "int", "Integer") : t \in {"0", "1", "42", "123456789", "007"}}

RadixPieces ==
  {TokPiece(t, "radix", "Integer") :
     t \in {"0x0", "0xff", "0xFF", "0Xdeadbeef", "0o777", "0O123", "0b101010", "0B11110000", "0b19"}}

FloatPieces ==
  {TokPiece(t, "float", "Float") :
     t \in {"0.0", "42.5", "1e5", "1E-5", "1e+5", "42.0e+3", "1.5e0", "123e-10", "99.1212e-22"}}

BadNumbers == {BadPiece(t, "badnum") : t \in {"42.", "42e", "42E+", "42.e5", "1.5e", "1.5e-", "0.", "7.x"}}

StringPieces ==
  {QuotePiece("\"\"", "quote", "String", <<>>),
   QuotePiece("\"hello\"", "quote", "String", <<104, 101, 108, 108, 111>>),
   QuotePiece("\"it's\"", "quote", "String", <<105, 116, 39, 115>>),
   QuotePiece("\"a\\nb\"", "quote", "String", <<97, 10, 98>>),
   QuotePiece("\"hello \\\"world\\\"\"", "quote", "String",
              <<104, 101, 108, 108, 111, 32, 34, 119, 111, 114, 108, 100, 34>>),
   QuotePiece("\"a\\\"b\"", "quote", "String", <<97, 34, 98>>),
   QuotePiece("'a'", "quote", "Char", <<97>>),
   QuotePiece("'\"'", "quote", "Char", <<34>>),
   QuotePiece("'\\n'", "quote", "Char", <<10>>),
   QuotePiece("'\\''", "quote", "Char", <<39>>)}

\* literals whose content ends with an escaped backslash
SlashPieces ==
  {QuotePiece("\"\\\\\"", "slash", "String", <<92>>),
   QuotePiece("'\\\\'", "slash", "Char", <<92>>),
   QuotePiece("\"a\\\\\"", "slash", "String", <<97, 92>>),
   QuotePiece("\"xy\\\\\"", "slash", "String", <<120, 121, 92>>),
   QuotePiece("\"C:\\\\Users\\\\name\\\\file.txt\"", "slash", "String",
              CodePoints("C:\\Users\\name\\file.txt"))}

\* literals with no closing delimiter before the end of the input
OpenQuotes ==
  {BadPiece(t, "open") :
     t \in {"\"unterminated", "\"unterminated\\", "'a", "'unterminated", "\"", "'",
            "\"abc\\\"", "'\\'", "\"a b"}}

\* characters that start no token
BadStarts ==
  {BadPiece(t, "start") :
     t \in {"@", "#", "$", "%", "&", "*", "=", "?", "\\", "|", "~", "!", ";", "<",
            ".", ".a", ". .", ".5"}}

WordPieces ==
  {TokPiece(t, "word", "Ident") : t \in {"abc", "true", "x1", "None"}}
  \cup {TokPiece(t, "word", "Punct") : t \in {"{", "}", "[", "]", "(", ")", ":", ",", "+", "-", ".."}}

OkPieces == IntPieces \cup RadixPieces \cup FloatPieces \cup StringPieces \cup SlashPieces \cup WordPieces

BadPieces == BadNumbers \cup OpenQuotes \cup BadStarts

\* the pieces put in front of another piece
Leaders ==
  {pc \in OkPieces : pc.text \in {"42", "0xff", "42.5", "\"hello\"", "\"\"", "\"xy\\\\\"",
                                  "'\\\\'", "abc", ","}}

RECURSIVE Width(_, _)
\* the length of the first n pieces put together
Width(pieces, n) == IF n = 0 THEN 0 ELSE Width(pieces, n - 1) + Len(pieces[n].text)

RECURSIVE Join(_, _)
Join(pieces, gap) ==
  IF Len(pieces) = 0 THEN ""
  ELSE IF Len(pieces) = 1 THEN pieces[1].text
  ELSE pieces[1].text \o gap \o Join(Tail(pieces), gap)

\* where the cursor stands when piece i is the next token: behind piece i - 1
At(pieces, gap, i) ==
  IF i = 1 THEN 0 ELSE Width(pieces, i - 1) + (i - 2) * Len(gap)

\* the pieces with their places, and the end of file behind them
Placed(pieces, gap) ==
  [i \in 1..(Len(pieces) + 1) |->
     IF i <= Len(pieces)
     THEN [at |-> At(pieces, gap, i), piece |-> pieces[i]]
     ELSE [at |-> At(pieces, gap, i), piece |-> TokPiece("", "eof", "Eof")]]

LexTys == {TAny, TStr, TChar}

LexCase(pieces, gap) == Case("lex", Join(pieces, gap), Placed(pieces, gap), LexTys)

RECURSIVE Rows(_)
\* a leader, then a leader, ..., then any piece; a bad piece comes last
Rows(n) ==
  IF n = 1 THEN {<<pc>> : pc \in OkPieces \cup BadPieces}
  ELSE Rows(n - 1) \cup {<<a>> \o row : a \in Leaders, row \in Rows(n - 1)}

\* rows of leaders only
RECURSIVE LeaderRows(_)
LeaderRows(n) ==
  IF n = 0 THEN {<<>>}
  ELSE LeaderRows(n - 1) \cup {<<a>> \o row : a \in Leaders, row \in LeaderRows(n - 1)}

LexCases ==
  {LexCase(row, " ") : row \in Rows(MaxToks)}
  \cup {LexCase(row, "\n\t ") : row \in LeaderRows(MaxToks)}
  \cup {LexCase(<<TokPiece("123", "int", "Integer"), TokPiece("abc", "word", "Ident")>>, ""),
        LexCase(<<TokPiece("0", "int", "Integer"), TokPiece("a", "word", "Ident")>>, ""),
        LexCase(<<TokPiece("12.34", "float", "Float"), BadPiece(".56", "badnum")>>, ""),
        LexCase(<<TokPiece("[", "word", "Punct"), TokPiece("1", "int", "Integer"),
                  TokPiece(",", "word", "Punct"), TokPiece("0x1", "radix", "Integer"),
                  TokPiece("]", "word", "Punct")>>, ""),
        LexCase(<<QuotePiece("\"a\"", "quote", "String", <<97>>),
                  QuotePiece("\"b\"", "quote", "String", <<98>>)>>, ""),
        LexCase(<<>>, ""),
        LexCase(<<TokPiece("   ", "eof", "Eof")>>, "")}

LexRuns == {Run(c, "same", c.buf) : c \in LexCases}

(***************************************************************************)
(* Texts without a schema: a head (an identifier, or nothing), what follows *)
(* it as part of the same value, and a tail that belongs to no value.       *)
(***************************************************************************)
Heads == {"Foo", "x", "true", "false", "None", "Some"}

\* form: "struct", "tuple_struct", "map", "alone" (the head is the value),
\* "refused" (a value is started and is in error), "unseen" (no second token)
Follow(text, form) == [text |-> text, form |-> form]

Bodies ==
  {Follow(" { a: 1, b: 2 }", "struct"), Follow("{}", "struct"), Follow(" {a: Foo(1), }", "struct"),
   Follow(" { a: 1, .. }", "struct"),
   Follow("(1, 2)", "tuple_struct"), Follow(" ()", "tuple_struct"),
   Follow("(1, (2, 3), [4], x)", "tuple_struct"), Follow(" ( 1 , )", "tuple_struct"),
   Follow(" {1: 2}", "refused"), Follow(" { a: 1", "refused"), Follow("(1, 2", "refused"),
   Follow("(1, 2]", "refused"), Follow("(1 2)", "refused"),
   Follow("", "alone")}

Tails == {"", " 42", " , 1", " ]", " : 1", " [1]", " Foo", " )", " }", " .."}

\* what a head, a body and a tail make: the text, the shape the visitor is to
\* be given ("" when there is none) and the offset the value ends at
AnyText(head, body, tail, given) ==
  [text |-> head \o body.text \o tail, form |-> body.form, shape |-> given,
   stop |-> Len(head \o body.text)]

ShapeOf(head, form) ==
  IF form = "alone" THEN (IF head \in {"true", "false"} THEN "bool" ELSE "unit_struct")
  ELSE IF form \in {"struct", "tuple_struct", "map"} THEN form
  ELSE ""

AnyCase(a) == Case("any", a.text, <<a>>, {TAny})

AnyCases ==
  {AnyCase(AnyText(h, b, t, ShapeOf(h, b.form))) : h \in Heads, b \in Bodies, t \in {"", " 42", " , 1"}}
  \cup {AnyCase(AnyText(h, Follow("", "alone"), t, ShapeOf(h, "alone"))) : h \in Heads, t \in Tails}
  \cup {AnyCase(AnyText(h, Follow("", "unseen"), t, "")) : h \in Heads, t \in {" @", " \"open", " ."}}
  \cup {AnyCase(AnyText("", Follow(text, "map"), t, "map")) :
          text \in {"{}", "{1: 2}", "{1: 2, 3: 4}", "{a: 1}", "{ 1 : {2: 3}, }"}, t \in {"", " 42"}}
  \cup {AnyCase(AnyText("", Follow(text, "refused"), "", "")) :
          text \in {"{1, 2}", "{1}", "{1, 2, 3}", "{a}", "{a, b}", "{ 1 , }"}}

AnyRuns == {Run(c, "same", c.buf) : c \in AnyCases}

(***************************************************************************)
(* The state of two Deserializers and of the program driving them          *)
(***************************************************************************)
VARIABLES
  buf,      \* Deserializer::total, the text given to Deserializer::new
  checked,  \* TRUE when the build checks arithmetic overflow (debug-assertions)
  pos,      \* offset in buf of Deserializer::lexer.data, the live cursor
  kind,     \* how buf was made
  script,   \* the values buf was rendered from
  tys,      \* the schemas the caller asks for
  op,       \* the last call: [name, ty, idx]
  pre,      \* the cursor before the last call
  res,      \* what the last call returned
  ended,    \* an end() had returned Ok before the last call
  done,     \* values of the script decoded so far, in order; -1 once off the script
  how,      \* how alt differs from buf
  alt,      \* the text given to the second Deserializer
  altpos,   \* the second Deserializer's cursor
  altres    \* what the second Deserializer's last call returned

vars == <<buf, checked, pos, kind, script, tys, op, pre, res, ended, done, how, alt, altpos, altres>>

input == <<buf, checked, kind, script, tys, how, alt>>

Call(name, ty, idx) == [name |-> name, ty |-> ty, idx |-> idx]

\* Deserializer::new(c.buf): lexer at the start of the text
New(c, build) ==
  /\ buf = c.buf
  /\ checked = build
  /\ kind = c.kind
  /\ script = c.script
  /\ tys = c.tys
  /\ pos = 0
  /\ pre = 0
  /\ op = Call("new", Nil, 0)
  /\ res = Ok(0, Nil)
  /\ ended = FALSE
  /\ done = 0

\* both Deserializers are created over the texts of the run r
Start(r, build) ==
  /\ New(r.c, build)
  /\ how = r.how
  /\ alt = r.alt
  /\ altpos = 0
  /\ altres = Ok(0, Nil)

Init == \E r \in Runs, build \in BOOLEAN : Start(r, build)

\* a panic unwinds through the caller: no later call on this Deserializer
Alive == res.k # "panic" /\ altres.k # "panic"

LastEndOk == op.name = "end" /\ res.k = "ok"

\* which value of the script a decode for ty is aimed at: the next one when the
\* schema is that value's, one past the last when all are read, else 0
Aim(ty) ==
  IF kind # "values" \/ done < 0 THEN 0
  ELSE IF done = Len(script) THEN done + 1
  ELSE IF ty = script[done + 1].ty THEN done + 1
  ELSE 0

\* the script bookkeeping of a decode aimed at value idx
Track(idx) ==
  IF idx = 0 THEN 0 - 1
  ELSE IF idx > Len(script) THEN done
  ELSE IF res'.k = "ok" THEN idx ELSE 0 - 1

\* T::deserialize(&mut deserializer)
DecodeMain(ty) ==
  /\ Alive
  /\ res' = deserialize(buf, pos, checked, ty)
  /\ pos' = res'.pos
  /\ pre' = pos
  /\ op' = Call("decode", ty, Aim(ty))
  /\ ended' = (ended \/ LastEndOk)
  /\ done' = Track(Aim(ty))
  /\ UNCHANGED input

\* deserializer.end()
EndMain ==
  /\ Alive
  /\ res' = end(buf, pos, checked)
  /\ pos' = res'.pos
  /\ pre' = pos
  /\ op' = Call("end", Nil, 0)
  /\ ended' = (ended \/ LastEndOk)
  /\ UNCHANGED <<done, input>>

\* what a caller of Lexer::parse_token gets
TokenResult(t) ==
  IF t.k = "tok" THEN Ok(t.pos, [kind |-> t.kind, value |-> t.value]) ELSE FromLex(t)

\* Lexer::parse_token on the live lexer
NextToken ==
  /\ Alive
  /\ res' = TokenResult(parse_token(buf, pos, checked))
  /\ pos' = res'.pos
  /\ pre' = pos
  /\ op' = Call("next_token", Nil, 0)
  /\ ended' = (ended \/ LastEndOk)
  /\ done' = 0 - 1
  /\ altres' = TokenResult(parse_token(alt, altpos, checked))
  /\ altpos' = altres'.pos
  /\ UNCHANGED input

Decode(ty) ==
  /\ DecodeMain(ty)
  /\ altres' = deserialize(alt, altpos, checked, ty)
  /\ altpos' = altres'.pos

End ==
  /\ EndMain
  /\ altres' = end(alt, altpos, checked)
  /\ altpos' = altres'.pos

Next ==
  \/ \E ty \in tys : Decode(ty)
  \/ End
  \/ NextToken

Spec == Init /\ [][Next]_vars

\* the same program over integer literals
InitNum == \E r \in NumRuns, build \in BOOLEAN : Start(r, build)

SpecNum == InitNum /\ [][Next]_vars

\* the same program over field lists and collections
InitBody == \E r \in BodyRuns, build \in BOOLEAN : Start(r, build)

SpecBody == InitBody /\ [][Next]_vars

\* parse_string and parse_char hand the contents of a literal to unescape
Unescape ==
  /\ kind = "esc"
  /\ Alive
  /\ res' = unescape(script[1].text)
  /\ op' = Call("unescape", Nil, 0)
  /\ UNCHANGED <<input, pos, pre, ended, done, altpos, altres>>

\* a peek that runs parse_token on the lexer itself
Peek_live ==
  /\ Alive
  /\ res' = TokenResult(peek(buf, pos, checked))
  /\ pos' = res'.pos
  /\ pre' = pos
  /\ op' = Call("peek", Nil, 0)
  /\ ended' = (ended \/ LastEndOk)
  /\ altres' = TokenResult(peek(alt, altpos, checked))
  /\ altpos' = altres'.pos
  /\ UNCHANGED <<done, input>>

\* Deserializer::peek: parse_token on a clone of the lexer
Peek ==
  /\ Alive
  /\ res' = TokenResult(peek(buf, pos, checked))
  /\ pos' = pos
  /\ pre' = pos
  /\ op' = Call("peek", Nil, 0)
  /\ ended' = (ended \/ LastEndOk)
  /\ altres' = TokenResult(peek(alt, altpos, checked))
  /\ altpos' = altpos
  /\ UNCHANGED <<done, input>>

\* Deserializer::peek2: two calls of parse_token on a clone of the lexer
Peek2 ==
  /\ Alive
  /\ res' = TokenResult(peek2(buf, pos, checked))
  /\ pos' = pos
  /\ pre' = pos
  /\ op' = Call("peek2", Nil, 0)
  /\ ended' = (ended \/ LastEndOk)
  /\ altres' = TokenResult(peek2(alt, altpos, checked))
  /\ altpos' = altpos
  /\ UNCHANGED <<done, input>>

\* the Lexer and the lookahead of the Deserializer over rows of token texts
InitLex == \E r \in LexRuns, build \in BOOLEAN : Start(r, build)

NextLex == Next \/ Peek \/ Peek2

SpecLex == InitLex /\ [][NextLex]_vars

InitEsc == \E r \in EscRuns, build \in BOOLEAN : Start(r, build)

NextEsc == Next \/ Unescape

SpecEsc == InitEsc /\ [][NextEsc]_vars

\* the same program over texts decoded without a schema
InitAny == \E r \in AnyRuns, build \in BOOLEAN : Start(r, build)

SpecAny == InitAny /\ [][Next]_vars

(***************************************************************************)
(* Properties                                                              *)
(***************************************************************************)
\* nothing but whitespace from offset p to the end of s
OnlyWhitespace(s, p) == \A i \in p..(Len(s) - 1) : ByteAt(s, i) \in WhiteSpace

\* the first decode of a run, made at the start of the buffer
FirstDecode == op.name = "decode" /\ pre = 0

SameToken(a, b) == a.k = b.k /\ a.kind = b.kind /\ a.value = b.value /\ a.from = b.from

\* C2: end() consumes nothing: the token that is next after an end() call is
\* the token that was next before it.
C2_EndIsAQuery ==
  op.name = "end" =>
    SameToken(parse_token(buf, pos, checked), parse_token(buf, pre, checked))

\* C3: once an end() has returned Ok, every later end() on the same
\* Deserializer returns Ok too.
C3_EndIdempotent == (ended /\ op.name = "end") => res.k = "ok"

\* a second end() after the value was decoded and a first end() returned Ok
C3_Witness ==
  /\ kind = "values"
  /\ done = Len(script)
  /\ ended
  /\ op.name = "end"
  /\ res.k = "ok"

\* C4: from a buffer of k >= 2 values separated by whitespace, the i-th decode
\* against the i-th value's schema returns that value and leaves the cursor
\* right after its last token, a decode after the k-th returns no value, and
\* end() succeeds exactly when all k values have been decoded.
C4_SequentialValues ==
  (kind = "values" /\ how = "same" /\ Len(script) >= 2) =>
    /\ (op.name = "decode" /\ op.idx \in 1..Len(script)) =>
         (res.k = "ok" /\ res.v = script[op.idx].v /\ pos = EndOf(script, op.idx))
    /\ (op.name = "decode" /\ op.idx = Len(script) + 1) => res.k # "ok"
    /\ (op.name = "end" /\ done >= 0) => (res.k = "ok" <=> done = Len(script))

\* C5: decoding the Debug rendering of a value against the value's own schema
\* returns that value, and the end() that follows succeeds.
C5_RoundTrip ==
  (kind = "values" /\ Len(script) = 1 /\ FirstDecode /\ op.idx = 1) =>
    /\ res.k = "ok"
    /\ res.v = script[1].v
    /\ end(buf, pos, checked).k = "ok"

\* C6: when a text decodes, the same text with spaces, tabs, carriage returns
\* or newlines put between two tokens, before the first or after the last
\* decodes to the same value, with the same outcome of the end() that follows.
C6_WhitespaceInsensitive ==
  (how = "ws" /\ FirstDecode /\ res.k = "ok") =>
    /\ altres.k = "ok"
    /\ altres.v = res.v
    /\ end(alt, altpos, checked).k = end(buf, pos, checked).k

\* C7: when a text decodes, the same text with one comma put right before the
\* closing delimiter of a non-empty sequence, set, map, struct, tuple, newtype
\* or variant body decodes to the same value.
C7_TrailingComma ==
  (how = "comma" /\ FirstDecode /\ res.k = "ok") =>
    (altres.k = "ok" /\ altres.v = res.v)

SepKinds == {"nosep", "dupsep", "leadsep"}

SepTexts == {"[1 2 3]", "[1, 2, , 3]", "{\"a\": 1 \"b\": 2}"}

StructKinds == {"struct", "unit_struct", "newtype_struct", "tuple_struct"}

\* the token ahead of the cursor is the identifier name
NamedAhead(s, p, chk, name) ==
  Let(parse_token(s, p, chk), LAMBDA t : t.k = "tok" /\ t.kind = "Ident" /\ t.value = name)

TokenAhead(s, p, chk) == parse_token(s, p, chk).k = "tok"

\* C9: a decode against a named, tuple, newtype or unit struct schema returns
\* an error and no value when the token at the cursor is anything but the
\* identifier that spells the schema's struct name exactly.
C9_ExactStructName ==
  (op.name = "decode" /\ op.ty.t \in StructKinds
     /\ TokenAhead(buf, pre, checked) /\ ~NamedAhead(buf, pre, checked, op.ty.name)) =>
    (res.k = "err" /\ res.v = Nil)

\* the rendering of S was refused against the same shape declared as s
C9_Witness ==
  /\ kind = "values"
  /\ script = <<TV(SimpleStruct, VStruct("S", <<VInt(42), VStr(<<120>>)>>))>>
  /\ FirstDecode
  /\ op.ty = [SimpleStruct EXCEPT !.name = "s"]
  /\ res.k = "err"
  /\ res.e.found = "S"

\* C10: against Option<u8>, Some(42) and Some( 42 ) decode to Some(42), None
\* decodes to None, Some(Some(42)) decodes against Option<Option<u8>>, and
\* Maybe(42) is refused with an unknown-variant error.
C10_OptionGrammar ==
  /\ (FirstDecode /\ op.ty = TOption(U8)) =>
       /\ buf \in {"Some(42)", "Some( 42 )"} => (res.k = "ok" /\ res.v = VSome(VInt(42)))
       /\ buf = "None" => (res.k = "ok" /\ res.v = VNone)
       /\ buf = "Maybe(42)" => (res.k = "err" /\ res.e.tag = "Custom" /\ res.e.found = "Maybe")
  /\ (FirstDecode /\ op.ty = TOption(TOption(U8)) /\ buf = "Some(Some(42))") =>
       (res.k = "ok" /\ res.v = VSome(VSome(VInt(42))))

(***************************************************************************)
(* Integer literals                                                        *)
(***************************************************************************)
\* the literal the buffer was written from
Lit == script[1]

\* the first call is a decode of the integer literal
NumDecode == kind = "num" /\ FirstDecode

\* the number the literal denotes
Value(lit) == IF lit.sign = "-" THEN 0 - lit.mag ELSE lit.mag

InRange(n, ty) ==
  /\ IntMin(ty.t = "int", ty.bits) <= n
  /\ n <= IntMax(ty.t = "int", ty.bits)

\* the call returned the number n and left nothing behind the literal
DecodedAll(n) ==
  /\ res.k = "ok"
  /\ res.v = VInt(n)
  /\ end(buf, pos, checked).k = "ok"

\* C11: a radix-prefixed literal without a sign, decoded as an unsigned type
\* that can hold it, yields the value of its digits in that radix (0xFF, 0o377
\* and 0b11111111 give 255 like the decimal 255, 0o77 gives 63, 0x0, 0o0 and
\* 0b0 give 0), and end() succeeds afterwards.
C11_RadixUnsigned ==
  (NumDecode /\ op.ty.t = "uint" /\ Lit.sign = "" /\ Lit.zeros = 0 /\ InRange(Lit.mag, op.ty))
    => DecodedAll(Lit.mag)

\* the literal N behind the sign of the buffer, decoded on its own
Unsigned == deserialize(Rest(buf, 1), 0, checked, op.ty)

\* C12: decoded as an unsigned type of any width, a literal with a leading "-"
\* is rejected with the integer-literal error whatever its digits are, and a
\* literal +N gives what N gives: the same outcome, the same value, the cursor
\* at the same place of the text; a decimal +N in range gives the number N.
C12_UnsignedSign ==
  (NumDecode /\ op.ty.t = "uint") =>
    /\ Lit.sign = "-" => (res.k = "err" /\ res.e.tag = "ParseInt")
    /\ Lit.sign = "+" =>
         /\ res.k = Unsigned.k
         /\ res.v = Unsigned.v
         /\ res.pos = Unsigned.pos + 1
         /\ (Lit.radix = 10 /\ InRange(Lit.mag, op.ty)) => (res.k = "ok" /\ res.v = VInt(Lit.mag))

\* -1, -0 and a negative radix literal were refused, and +255 decoded to 255
C12_Witness ==
  /\ NumDecode
  /\ \/ op.ty = U8 /\ buf \in {"-1", "-0", "-0x0"} /\ res.k = "err"
     \/ op.ty = U16 /\ buf = "-00" /\ res.k = "err"
     \/ op.ty = U8 /\ buf = "+255" /\ res.v = VInt(255)

\* C13: decoded as a signed type, a radix-prefixed literal without a sign is
\* the bit pattern of the type: digits whose value has the top bit of the
\* width set give that value minus 2^width, so 0xFF, 0b11111111 and 0o377
\* decoded as i8 give -1 and do not overflow.
C13_SignedBitPattern ==
  (/\ NumDecode /\ op.ty.t = "int" /\ op.ty.bits < 32
   /\ Lit.sign = "" /\ Lit.radix # 10
   /\ Pow(2, op.ty.bits - 1) <= Lit.mag /\ Lit.mag < Pow(2, op.ty.bits))
    => (res.k = "ok" /\ res.v = VInt(Lit.mag - Pow(2, op.ty.bits)))

\* C14: a decimal literal, signed or not, zero-padded or not, whose value is
\* outside the range of the integer type never decodes: the call fails with
\* the integer-literal error that carries the text of the literal.
C14_OverflowDetected ==
  (NumDecode /\ Lit.radix = 10 /\ ~InRange(Value(Lit), op.ty))
    => (res.k = "err" /\ res.e.tag = "ParseInt" /\ res.e.found = buf)

\* C15: decoded as a signed type, a decimal literal with an optional sign and
\* optional zero padding whose value is in the range of the type gives exactly
\* that value, the minimum, the maximum, zero and values ending in 0 included.
C15_SignedDecimal ==
  (NumDecode /\ op.ty.t = "int" /\ Lit.radix = 10 /\ InRange(Value(Lit), op.ty))
    => (res.k = "ok" /\ res.v = VInt(Value(Lit)))

\* C16: decoded as a signed type, a radix-prefixed literal with an explicit
\* sign gives the signed magnitude of its digits when that is in range: -0xff
\* is -255 as i32, -0xabcdef is -11259375 as i64, -0b101010 is -42 as i16.
C16_SignedRadix ==
  (/\ NumDecode /\ op.ty.t = "int" /\ Lit.radix # 10 /\ Lit.sign # ""
   /\ InRange(Value(Lit), op.ty))
    => (res.k = "ok" /\ res.v = VInt(Value(Lit)))

(***************************************************************************)
(* Field lists and closing delimiters                                      *)
(***************************************************************************)
\* C17: in the field list of a named struct or a struct variant the token ".."
\* ends the fields: the fields read before it reach the schema (which fills an
\* absent Option field with None), no field after it is read, and the token
\* behind it must be the closing brace.  The texts that put "}" right behind
\* ".." decode to the value written and leave nothing behind; the texts that
\* put a comma, a field, a value, another "..", another closer or the end of
\* input behind ".." are errors.
C17_DotsEndFields ==
  (kind = "dots" /\ FirstDecode) =>
    IF script[1].ok
    THEN res.k = "ok" /\ res.v = script[1].v /\ end(buf, pos, checked).k = "ok"
    ELSE res.k = "err"

\* Test { a: 4, .. } was decoded, and a text with a field behind ".." refused
C17_Witness ==
  /\ kind = "dots" /\ FirstDecode
  /\ \/ buf = "Test { a: 4, .. }" /\ res.k = "ok"
     \/ buf = "Test { a: 4, .. b: None }" /\ res.k = "err"

Unescaped == kind = "esc" /\ op.name = "unescape"

\* C19: unescape returns contents without a backslash unchanged, replaces each
\* of the escapes \0 \t \r \n \\ \' \" by its character and \u{H..} (one or more
\* hex digits of either case) by the scalar of that value, and keeps the text
\* before, between and after the escapes in order; and the literals "a\u{42}c"
\* and "\u{1f600}" decode to the string aBc and to the one scalar U+1F600.
C19_EscapeDecoding ==
  /\ (Unescaped /\ script[1].ok) => (res.k = "ok" /\ res.v = script[1].v)
  /\ (kind = "esc" /\ FirstDecode /\ op.ty = TStr) =>
       /\ buf = "\"a\\u{42}c\"" => (res.k = "ok" /\ res.v = VStr(<<97, 66, 99>>))
       /\ buf = "\"\\u{1f600}\"" => (res.k = "ok" /\ res.v = VStr(<<128512>>))

\* contents of two escapes around plain text were unescaped, and the literal
\* of the documentation was decoded
C19_Witness ==
  \/ Unescaped /\ script[1].text \in {"\\\"a", "\\n\\u{1F600}", "\\\\\\'"} /\ res.k = "ok"
  \/ kind = "esc" /\ FirstDecode /\ buf = "\"a\\u{42}c\"" /\ res.k = "ok"

\* C20: every malformed escape in the contents of a literal is reported as an
\* invalid-literal error and gives no value: a backslash before a character
\* that starts no escape, a backslash as the last character, \u without "{",
\* without "}" or without digits, a surrogate, a value above U+10FFFF.
C20_MalformedEscape == (Unescaped /\ ~script[1].ok) => res.k = "err"

(***************************************************************************)
(* The cursor and the tokens                                               *)
(***************************************************************************)
\* C21: over any sequence of next_token, decode and end calls, whether they
\* succeed or fail, the cursor only moves forward and stays inside the buffer:
\* what is unconsumed after a call is a suffix of what was unconsumed before.
C21_CursorForward == [][pos <= pos' /\ pos' <= Len(buf)]_vars

\* a decode that failed, and an end() that failed, each past some input
C21_Witness ==
  /\ op.name \in {"decode", "end"}
  /\ res.k = "err"
  /\ 0 < pre /\ pre < pos

\* the call before this state was a lookahead
Peeked == op.name \in {"peek", "peek2"}

\* the cursor p is the first character at or behind q that is not whitespace,
\* or the end of the buffer
FirstAfterBlanks(q, p) ==
  /\ q <= p /\ p <= Len(buf)
  /\ \A i \in q..(p - 1) : ByteAt(buf, i) \in WhiteSpace
  /\ p < Len(buf) => ByteAt(buf, p) \notin WhiteSpace

\* C22: peek and peek2 work on a copy of the lexer: whether the probe gives a
\* token or a lex error the live cursor stays where it was, and the token a
\* peek showed is the token the next next_token returns.  A next_token that
\* fails commits nothing of the token: the cursor is left on the first
\* character behind the whitespace, and the same call again returns the same
\* error from the same place.
C22_LookaheadInvisible ==
  [][/\ Peeked' => pos' = pos
     /\ (op.name = "peek" /\ op'.name = "next_token") => (res'.k = res.k /\ res'.v = res.v /\ res'.e = res.e)
     /\ (op'.name = "next_token" /\ res'.k = "err") => FirstAfterBlanks(pos, pos')
     /\ (op.name = "next_token" /\ res.k = "err" /\ op'.name = "next_token")
          => (res' = res /\ pos' = pos)]_vars

\* a peek2 that hit a lex error behind a token, and a failed next_token
\* repeated behind whitespace
C22_Witness ==
  \/ op.name = "peek2" /\ res.k = "err" /\ pos = 0 /\ buf = "42 @"
  \/ op.name = "next_token" /\ res.k = "err" /\ pre = pos /\ pos > 0 /\ buf = "\"hello\" 42."

\* the last call was a next_token that returned a token
GotToken == op.name = "next_token" /\ res.k = "ok"

\* C23: a successful next_token skips the whitespace at the cursor and then
\* consumes exactly one token: the span returned is the text of the buffer
\* from the first character behind that whitespace up to the cursor after the
\* call; it is empty for Eof, which is returned only when nothing but
\* whitespace was left, and non-empty for every other kind.  So successive
\* spans are disjoint, in buffer order, with only whitespace between them.
C23_OneTokenPerCall ==
  GotToken =>
    /\ FirstAfterBlanks(pre, pos - Len(res.v.value))
    /\ res.v.value = SubSeq(buf, pos - Len(res.v.value) + 1, pos)
    /\ res.v.kind = "Eof" <=> res.v.value = ""
    /\ res.v.kind = "Eof" <=> OnlyWhitespace(buf, pre)

\* the second token of a row was returned behind a gap of three blanks, and
\* Eof behind the last token
C23_Witness ==
  /\ GotToken
  /\ \/ pre > 0 /\ pos - Len(res.v.value) = pre + 3 /\ res.v.kind = "String"
     \/ pre > 0 /\ res.v.kind = "Eof"

\* the piece of the row that starts where the cursor stood before the call
Here == {it \in {script[i] : i \in 1..Len(script)} : it.at = pre}

\* the call returned the one token the piece is: its kind and all of its text
IsToken(pc) == res.k = "ok" /\ res.v.kind = pc.kind /\ res.v.value = pc.text

\* next_token was called with a piece of the given classes at the cursor
TokenAt(classes) == {it.piece : it \in {h \in Here : kind = "lex" /\ op.name = "next_token" /\ h.piece.class \in classes}}

\* C24: with 0 followed by one of x X o O b B and at least one character of
\* the hex digit class at the cursor, next_token returns one Integer token
\* that spans the prefix and the whole run of such characters, whatever the
\* radix (0xff, 0Xdeadbeef, 0o777, 0B11110000, 0b19); and 0a is the Integer 0
\* followed by the identifier a.
C24_RadixToken ==
  /\ \A pc \in TokenAt({"radix"}) : IsToken(pc)
  /\ (kind = "lex" /\ buf = "0a" /\ op.name = "next_token") =>
       /\ pre = 0 => (res.k = "ok" /\ res.v = [kind |-> "Integer", value |-> "0"])
       /\ pre = 1 => (res.k = "ok" /\ res.v = [kind |-> "Ident", value |-> "a"])

C26_QuoteScan == \A pc \in TokenAt({"quote"}) : IsToken(pc)

\* C27: a literal whose content ends with an escaped backslash is one whole
\* token, and it decodes to a value that ends with one backslash.
C27_EscapedBackslash ==
  /\ \A pc \in TokenAt({"slash"}) : IsToken(pc)
  /\ \A it \in Here :
       (kind = "lex" /\ op.name = "decode" /\ it.piece.class = "slash") =>
         /\ (op.ty = TStr /\ it.piece.kind = "String") => (res.k = "ok" /\ res.v = VStr(it.piece.v))
         /\ (op.ty = TChar /\ it.piece.kind = "Char") => (res.k = "ok" /\ res.v = VChar(it.piece.v[1]))

\* C28: next_token returns a lex error and no token when a literal has no
\* closing delimiter before the end of the input and when the character at
\* the cursor starts no token (a lone "." included).  The error carries what
\* was expected and the text found: the rest of the input behind the opening
\* quote, the character that starts no token, the character behind the lone
\* "."; the text found is empty, which reads end of file, when none is left.
C28_LexErrors ==
  \A pc \in TokenAt({"open", "start"}) :
    /\ res.k = "err"
    /\ res.e.tag = "Lexer"
    /\ res.e.expected # ""
    /\ res.e.found =
         IF pc.class = "open" THEN Rest(buf, pos + 1)
         ELSE IF ByteAt(buf, pos) = "." THEN ByteAt(buf, pos + 1)
         ELSE ByteAt(buf, pos)

(***************************************************************************)
(* Decoding without a schema                                               *)
(***************************************************************************)
\* the first decode of a text without a schema
AnyDecode == kind = "any" /\ op.name = "decode" /\ op.ty = TAny /\ pre = 0

Given == script[1]

\* the value was decoded as the shape given and ends where it ends in the text
DecodedAs(a) == res.k = "ok" /\ res.v = VAny(a.shape) /\ pos = a.stop

\* C29: untyped decoding of an identifier X is chosen by the token after it,
\* and nothing is consumed before the choice: X then { is a struct named X
\* with its field map, X then ( is a tuple call consumed up to its matching ),
\* otherwise true and false are booleans, otherwise X is a unit value and only
\* the identifier is consumed; when the token after X cannot be lexed the
\* decode fails with the cursor where it was.  A leading { is a map and never
\* a set: {1, 2} is refused.
C29_AnyByLookahead ==
  AnyDecode =>
    /\ Given.shape # "" => DecodedAs(Given)
    /\ Given.shape = "" => res.k = "err"
    /\ Given.form = "unseen" => pos = pre

C29_Witness ==
  /\ AnyDecode
  /\ \/ buf = "true { a: 1, b: 2 } , 1" /\ DecodedAs(Given) /\ Given.shape = "struct"
     \/ buf = "Foo(1, (2, 3), [4], x) 42" /\ DecodedAs(Given) /\ Given.shape = "tuple_struct"
     \/ buf = "false ]" /\ DecodedAs(Given) /\ Given.shape = "bool" /\ pos = 5
     \/ buf = "None , 1" /\ DecodedAs(Given) /\ Given.shape = "unit_struct" /\ pos = 4
     \/ buf = "{1, 2}" /\ res.k = "err"
     \/ buf = "{1: 2, 3: 4}" /\ DecodedAs(Given) /\ Given.shape = "map"
     \/ buf = "Foo @" /\ res.k = "err" /\ pos = 0

(***************************************************************************)
(* Totality                                                                *)
(***************************************************************************)
\* C30: every next_token, decode and end call returns a value or an Error,
\* whatever the buffer and the schema: the empty literal "", a content ending
\* in a lone backslash, a sign and its digits joined in one span, and an
\* untyped decode at a token that starts no value (a closing delimiter, a
\* comma, a colon, .. or the end of input) never abort the call.
C30_Total == op.name \in {"next_token", "decode", "end"} => res.k \in {"ok", "err"}
====
